---- MODULE Spec2Model ----
(***************************************************************************)
(* Dead Internet Detector: the score aggregator (TrustScorer) as a state   *)
(* machine.  A scorer is constructed, then computeScore is called on a     *)
(* sequence of signal bundles (Spec).  The detectors that produce the      *)
(* signals are pure functions of their input; each is followed through one *)
(* call on an input chosen at the start (CallSpec).                        *)
(*                                                                         *)
(* Numbers.  Signal scores, weights and thresholds are kept in hundredths  *)
(* (0.25 is 25).  Quotients are exact rationals [num, den] in lowest       *)
(* terms, so that an equality of two scores is an equality of values.      *)
(*                                                                         *)
(* Objects.  A JavaScript object is a function from its own keys to its    *)
(* values.  Object.entries visits the keys in insertion order; the callers *)
(* build every bundle in one fixed order, and the model visits the keys in *)
(* that order (CategoryOrder, SignalOrder).                                *)
(***************************************************************************)
EXTENDS Integers, Sequences, FiniteSets, TLC

VARIABLES
    weights,          \* this.weights: category -> signal name -> weight
    categoryWeights,  \* this.categoryWeights: category -> weight
    thresholds,       \* this.thresholds: level -> lowest score of the level
    config,           \* this.config: the defaults overridden by the argument
    bundle,           \* the argument of the last computeScore call
    result,           \* the TrustResult the last computeScore call returned
    first,            \* the first call made on this scorer: its bundle, its result, and
                      \* whether another bundle was scored since
    arg,              \* the argument this scorer was constructed with
    call,             \* a single call of one of the engine's functions: its name and input
    ret,              \* the outcome of that call: a value returned or an error thrown
    cache,            \* StorageManager's result cache in chrome.storage.local, the clock
                      \* and the cache calls in flight
    usage,            \* the stored usage record, the settings, the day, and the
                      \* incrementUsage and canScan calls in flight
    page,             \* the Amazon page and its content script: review cards, badges,
                      \* isRunning, observers and timers
    deep              \* a DeepAnalyzer: callCount and the analyzeContent calls in flight

vars == <<weights, categoryWeights, thresholds, config, bundle, result, first, arg,
          call, ret, cache, usage, page, deep>>

\* the state outside the scoring engine
shellVars == <<cache, usage, page, deep>>

\* a part of the extension that is not running
NotRunning == [kind |-> "not running"]

\* only the scoring engine is followed
EngineOnly ==
    /\ cache = NotRunning
    /\ usage = NotRunning
    /\ page = NotRunning
    /\ deep = NotRunning

scorerVars == <<weights, categoryWeights, thresholds, config>>

-----------------------------------------------------------------------------
(* Exact rationals *)

RECURSIVE Gcd(_, _)
Gcd(a, b) == IF b = 0 THEN a ELSE Gcd(b, a % b)

Rat(n, d) == LET g == Gcd(n, d) IN [num |-> n \div g, den |-> d \div g]

RatLess(a, b) == a.num * b.den < b.num * a.den

RatLeq(a, b) == a.num * b.den <= b.num * a.den

RatAdd(a, b) == Rat(a.num * b.den + b.num * a.den, a.den * b.den)

\* a rational times an integer number of hundredths
RatScale(a, h) == Rat(a.num * h, a.den)

\* a number of hundredths as a rational
Hundredths(h) == Rat(h, 100)

-----------------------------------------------------------------------------
(* The scorer's tables *)

DefaultWeights ==
    [ text |->
        [ aiDetection |-> 25, repetitionPattern |-> 20, sentimentConsistency |-> 15,
          vocabularyDistribution |-> 15, templateMatching |-> 25 ],
      account |->
        [ accountAge |-> 30, postingFrequency |-> 25, reviewDiversity |-> 20,
          profileCompleteness |-> 15, networkConnections |-> 10 ],
      behavioral |->
        [ timingCluster |-> 35, coordinatedLanguage |-> 35, ratingDistribution |-> 30 ],
      media |->
        [ reverseImageMatch |-> 40, exifAnalysis |-> 25, aiArtifacts |-> 35 ] ]

DefaultCategoryWeights ==
    [ text |-> 30, account |-> 25, behavioral |-> 30, media |-> 15 ]

DefaultThresholds ==
    [ HIGH_TRUST |-> 75, MODERATE_TRUST |-> 50, LOW_TRUST |-> 30, VERY_LOW_TRUST |-> 15 ]

DefaultConfig ==
    [ minSignalsRequired |-> 3, confidenceDecay |-> 85 ]

\* a signal below this score is reported as an issue
IssueThreshold == 40

\* an issue below this score has severity high
HighSeverityThreshold == 20

\* "10 = theoretical max signals"
TheoreticalMaxSignals == 10

-----------------------------------------------------------------------------
(* Property lookup.  obj[key] finds an own key first; a key that is not an *)
(* own key but names a method of Object.prototype yields that method, a    *)
(* function (truthy, and not a number); any other key yields undefined.    *)

ObjectPrototypeKeys ==
    { "constructor", "toString", "toLocaleString", "valueOf", "hasOwnProperty",
      "isPrototypeOf", "propertyIsEnumerable" }

JsUndefined == [kind |-> "undefined"]

JsFunction == [kind |-> "function"]

JsNull == [kind |-> "null"]

Get(obj, key) ==
    IF key \in DOMAIN obj THEN [kind |-> "own", value |-> obj[key]]
    ELSE IF key \in ObjectPrototypeKeys THEN JsFunction
    ELSE JsUndefined

\* the keys of obj in the order Object.entries visits them
RECURSIVE Filter(_, _)
Filter(order, keys) ==
    IF order = << >> THEN << >>
    ELSE IF Head(order) \in keys THEN <<Head(order)>> \o Filter(Tail(order), keys)
    ELSE Filter(Tail(order), keys)

CategoryOrder ==
    << "text", "account", "behavioral", "media", "social", "constructor" >>

SignalOrder ==
    << "aiDetection", "repetitionPattern", "sentimentConsistency",
       "vocabularyDistribution", "templateMatching", "readability",
       "accountAge", "postingFrequency", "reviewDiversity", "profileCompleteness",
       "networkConnections",
       "timingCluster", "coordinatedLanguage", "ratingDistribution",
       "reverseImageMatch", "exifAnalysis", "aiArtifacts",
       "followerRatio" >>

Entries(order, obj) == Filter(order, DOMAIN obj)

-----------------------------------------------------------------------------
(* Signal values: null, a bare number, or an object {score, detail} whose  *)
(* score may be null.  Scores are in hundredths.                           *)

NullSignal == [kind |-> "null"]

Num(s) == [kind |-> "number", score |-> s]

Obj(s, d) == [kind |-> "object", scored |-> TRUE, score |-> s, detail |-> d]

ObjNullScore == [kind |-> "object", scored |-> FALSE, score |-> 0, detail |-> "null"]

\* signalValue === null || signalValue === undefined
IsNullish(signalValue) == signalValue.kind = "null"

\* typeof signalValue === 'object' ? signalValue.score : signalValue, and the
\* test of the outcome against null and undefined
HasNormalizedValue(signalValue) ==
    IF signalValue.kind = "object" THEN signalValue.scored ELSE TRUE

NormalizedValue(signalValue) == signalValue.score

\* typeof signalValue === 'object' ? signalValue.detail : null
IssueDetail(signalValue) ==
    IF signalValue.kind = "object" THEN signalValue.detail ELSE "null"

-----------------------------------------------------------------------------
(* TrustScorer._scoreCatgory *)

\* weights[signalName] || 0, where weights is this.weights[category]: a table of
\* the scorer, or a method of Object.prototype when the category name is one
SignalWeight(w, signalName) ==
    LET found == IF w.kind = "own" THEN Get(w.value, signalName)
                 ELSE IF signalName \in ObjectPrototypeKeys THEN JsFunction
                 ELSE JsUndefined
    IN  IF found.kind = "own" THEN [kind |-> "number", n |-> found.value]
        ELSE IF found.kind = "function" THEN JsFunction
        ELSE [kind |-> "number", n |-> 0]

IsIssue(normalizedValue) == normalizedValue < IssueThreshold

Severity(normalizedValue) ==
    IF normalizedValue < HighSeverityThreshold THEN "high" ELSE "medium"

Issue(category, signalName, signalValue) ==
    [ category |-> category,
      signal   |-> signalName,
      score    |-> NormalizedValue(signalValue),
      detail   |-> IssueDetail(signalValue),
      severity |-> Severity(NormalizedValue(signalValue)) ]

\* the signal's polarity inverted: (1 - normalizedValue) * weight is added
ScoreSignalInverted(category, signalName, signalValue, w, acc) ==
    IF IsNullish(signalValue) THEN acc
    ELSE IF ~HasNormalizedValue(signalValue) THEN acc
    ELSE LET weight == SignalWeight(w, signalName)
             v == NormalizedValue(signalValue)
         IN  [ score       |-> IF weight.kind = "number"
                                 THEN acc.score + (100 - v) * weight.n ELSE acc.score,
               weightSum   |-> IF weight.kind = "number"
                                 THEN acc.weightSum + weight.n ELSE acc.weightSum,
               numeric     |-> acc.numeric /\ weight.kind = "number",
               signalCount |-> acc.signalCount + 1,
               issues      |-> IF IsIssue(v)
                                 THEN Append(acc.issues, Issue(category, signalName, signalValue))
                                 ELSE acc.issues ]

\* one pass of the loop over Object.entries(signals).  acc.numeric is FALSE once a
\* weight that is a function was added: weightSum is then a string and score NaN.
ScoreSignal(category, signalName, signalValue, w, acc) ==
    IF IsNullish(signalValue) THEN acc
    ELSE IF ~HasNormalizedValue(signalValue) THEN acc
    ELSE LET weight == SignalWeight(w, signalName)
             v == NormalizedValue(signalValue)
         IN  [ score       |-> IF weight.kind = "number"
                                 THEN acc.score + v * weight.n ELSE acc.score,
               weightSum   |-> IF weight.kind = "number"
                                 THEN acc.weightSum + weight.n ELSE acc.weightSum,
               numeric     |-> acc.numeric /\ weight.kind = "number",
               signalCount |-> acc.signalCount + 1,
               issues      |-> IF IsIssue(v)
                                 THEN Append(acc.issues, Issue(category, signalName, signalValue))
                                 ELSE acc.issues ]

RECURSIVE ScoreSignals(_, _, _, _, _)
ScoreSignals(category, signals, w, names, acc) ==
    IF names = << >> THEN acc
    ELSE ScoreSignals(category, signals, w, Tail(names),
                      ScoreSignal(category, Head(names), signals[Head(names)], w, acc))

\* weightSum > 0 ? score / weightSum : 0.5   (a string weightSum compares as NaN)
CategoryAverage(acc) ==
    IF acc.numeric /\ acc.weightSum > 0
    THEN Rat(acc.score, 100 * acc.weightSum)
    ELSE Rat(1, 2)

_scoreCatgory(category, signals, w) ==
    LET acc == ScoreSignals(category, signals, w, Entries(SignalOrder, signals),
                            [ score |-> 0, weightSum |-> 0, numeric |-> TRUE,
                              signalCount |-> 0, issues |-> << >> ])
    IN  [ score       |-> CategoryAverage(acc),
          signalCount |-> acc.signalCount,
          issues      |-> acc.issues ]

-----------------------------------------------------------------------------
(* TrustScorer.computeScore *)

\* if (!this.weights[category]) continue
Recognized(category) == Get(weights, category).kind # "undefined"

\* if (categoryResult.signalCount > 0)
Contributes(categoryResult) == categoryResult.signalCount > 0

\* one pass of the loop over Object.entries(signals)
ScoreEntry(category, signalGroup, acc) ==
    IF ~Recognized(category) THEN acc
    ELSE LET categoryResult == _scoreCatgory(category, signalGroup, Get(weights, category))
         IN  IF Contributes(categoryResult)
             THEN [ categoryScores |-> (category :> categoryResult) @@ acc.categoryScores,
                    totalSignals   |-> acc.totalSignals + categoryResult.signalCount,
                    flaggedIssues  |-> acc.flaggedIssues \o categoryResult.issues ]
             ELSE acc

RECURSIVE ScoreEntries(_, _, _)
ScoreEntries(signals, categories, acc) ==
    IF categories = << >> THEN acc
    ELSE ScoreEntries(signals, Tail(categories),
                      ScoreEntry(Head(categories), signals[Head(categories)], acc))

InsufficientDataOffByOne(totalSignals) == totalSignals <= config.minSignalsRequired

\* if (totalSignals < this.config.minSignalsRequired)
InsufficientData(totalSignals) == totalSignals < config.minSignalsRequired

\* this.categoryWeights[category] || 0
CategoryWeight(category) ==
    LET found == Get(categoryWeights, category)
    IN  IF found.kind = "own" THEN [kind |-> "number", n |-> found.value]
        ELSE IF found.kind = "function" THEN JsFunction
        ELSE [kind |-> "number", n |-> 0]

\* the loop over Object.entries(categoryScores): finalScore and weightSum.  numeric
\* is FALSE once a weight that is a function was added (weightSum is then a string).
RECURSIVE WeightedSum(_, _, _)
WeightedSum(categoryScores, categories, acc) ==
    IF categories = << >> THEN acc
    ELSE LET category == Head(categories)
             weight == CategoryWeight(category)
         IN  WeightedSum(categoryScores, Tail(categories),
                 IF weight.kind = "number"
                 THEN [ finalScore |-> RatAdd(acc.finalScore,
                                              RatScale(categoryScores[category].score, weight.n)),
                        weightSum  |-> acc.weightSum + weight.n,
                        numeric    |-> acc.numeric ]
                 ELSE [ acc EXCEPT !.numeric = FALSE ])

\* the sum of weight * score, left undivided by the sum of the weights used
FinalScoreNotRenormalized(categoryScores) ==
    LET acc == WeightedSum(categoryScores, Entries(CategoryOrder, categoryScores),
                           [ finalScore |-> Rat(0, 1), weightSum |-> 0, numeric |-> TRUE ])
    IN  IF acc.numeric /\ acc.weightSum > 0
        THEN Rat(acc.finalScore.num, acc.finalScore.den * 100)
        ELSE Rat(1, 2)

\* finalScore = weightSum > 0 ? finalScore / weightSum : 0.5
FinalScore(categoryScores) ==
    LET acc == WeightedSum(categoryScores, Entries(CategoryOrder, categoryScores),
                           [ finalScore |-> Rat(0, 1), weightSum |-> 0, numeric |-> TRUE ])
    IN  IF acc.numeric /\ acc.weightSum > 0
        THEN Rat(acc.finalScore.num, acc.finalScore.den * acc.weightSum)
        ELSE Rat(1, 2)

\* totalSignals / 10 * confidenceDecay, without the cap at full coverage
ConfidenceUncapped(totalSignals) ==
    Rat(totalSignals * config.confidenceDecay, TheoreticalMaxSignals * 100)

\* Math.min(1, totalSignals / 10) * this.config.confidenceDecay
Confidence(totalSignals) ==
    LET covered == IF totalSignals < TheoreticalMaxSignals
                   THEN totalSignals ELSE TheoreticalMaxSignals
    IN  Rat(covered * config.confidenceDecay, TheoreticalMaxSignals * 100)

\* score > this.thresholds[level]
Above(score, level) == score.num * 100 > thresholds[level] * score.den

\* score >= this.thresholds[level]
AtLeast(score, level) == score.num * 100 >= thresholds[level] * score.den

_getTrustLevel(score) ==
    IF AtLeast(score, "HIGH_TRUST") THEN "HIGH_TRUST"
    ELSE IF AtLeast(score, "MODERATE_TRUST") THEN "MODERATE_TRUST"
    ELSE IF AtLeast(score, "LOW_TRUST") THEN "LOW_TRUST"
    ELSE "VERY_LOW_TRUST"

\* the message: the "Limited data suggests" qualifier, the template of the level
\* and the issue count the template prints (HIGH_TRUST prints none)
_generateMessage(level, issues, confidence) ==
    [ qualifier |-> RatLess(confidence, Rat(1, 2)),
      template  |-> level,
      concerns  |-> IF level = "HIGH_TRUST" THEN 0 ELSE Len(issues) ]

\* the TrustResult built from what the loop over the categories collected
TrustResult(acc) ==
    IF InsufficientData(acc.totalSignals)
    THEN [ score       |-> JsNull,
           level       |-> "INSUFFICIENT_DATA",
           confidence  |-> Rat(0, 1),
           message     |-> [ qualifier |-> FALSE, template |-> "INSUFFICIENT_DATA",
                             concerns |-> 0 ],
           details     |-> acc.categoryScores,
           issues      |-> << >>,
           signalCount |-> acc.totalSignals ]
    ELSE LET finalScore == FinalScore(acc.categoryScores)
             confidence == Confidence(acc.totalSignals)
             level == _getTrustLevel(finalScore)
         IN  [ score       |-> finalScore,
               level       |-> level,
               confidence  |-> confidence,
               message     |-> _generateMessage(level, acc.flaggedIssues, confidence),
               details     |-> acc.categoryScores,
               issues      |-> acc.flaggedIssues,
               signalCount |-> acc.totalSignals ]

\* totalSignals kept from the call before instead of starting at 0
computeScoreKeepingCount(signals) ==
    TrustResult(ScoreEntries(signals, Entries(CategoryOrder, signals),
                             [ categoryScores |-> << >>,
                               totalSignals |-> IF result.level = "NONE" THEN 0
                                                ELSE result.signalCount,
                               flaggedIssues |-> << >> ]))

\* the timestamp of the result (Date.now()) is left out: no two calls agree on it
computeScore(signals) ==
    TrustResult(ScoreEntries(signals, Entries(CategoryOrder, signals),
                             [ categoryScores |-> << >>, totalSignals |-> 0,
                               flaggedIssues |-> << >> ]))

-----------------------------------------------------------------------------
(* TrustScorer.constructor *)

\* the arguments the scorer is constructed with: none, overrides of the two
\* tunables, and an argument that carries tables under the names of the scorer's
\* own tables
OverridingThresholds ==
    [ HIGH_TRUST |-> 90, MODERATE_TRUST |-> 60, LOW_TRUST |-> 40, VERY_LOW_TRUST |-> 20 ]

OverridingCategoryWeights ==
    [ text |-> 70, account |-> 10, behavioral |-> 10, media |-> 10 ]

OverridingWeights ==
    [ DefaultWeights EXCEPT !.text =
        [ aiDetection |-> 60, repetitionPattern |-> 10, sentimentConsistency |-> 10,
          vocabularyDistribution |-> 10, templateMatching |-> 10 ] ]

Configs ==
    { << >>,
      [ minSignalsRequired |-> 5 ],
      [ minSignalsRequired |-> 0, confidenceDecay |-> 100 ],
      [ confidenceDecay |-> 50, weights |-> OverridingWeights,
        categoryWeights |-> OverridingCategoryWeights, thresholds |-> OverridingThresholds ] }

\* { ...config, minSignalsRequired: 3, confidenceDecay: 0.85 }: the defaults last
SpreadConfigDefaultsLast(configArg) == DefaultConfig @@ configArg

\* this.config = { minSignalsRequired: 3, confidenceDecay: 0.85, ...config }
SpreadConfig(configArg) == configArg @@ DefaultConfig

NoCall == [called |-> FALSE]

NoResult == [level |-> "NONE"]

\* the scorer `new TrustScorer(configArg)` returns, before any call
Construct(configArg) ==
    /\ weights = DefaultWeights
    /\ categoryWeights = DefaultCategoryWeights
    /\ thresholds = DefaultThresholds
    /\ config = SpreadConfig(configArg)
    /\ arg = configArg
    /\ bundle = << >>
    /\ result = NoResult
    /\ first = NoCall

-----------------------------------------------------------------------------
(* The bundles computeScore is called with *)

\* the most signals by which a bundle scored on a scorer differs from the first
\* bundle scored on it
MaxEdits == 1

TextSignals == DOMAIN DefaultWeights.text

AccountSignals == DOMAIN DefaultWeights.account

\* the places of a bundle the caller changes between calls: signals of the four
\* categories, a text signal that has no weight, and two categories that have none
Slots ==
    ({"text"} \X (TextSignals \cup {"readability"}))
    \cup ({"account"} \X {"accountAge"})
    \cup ({"behavioral"} \X {"timingCluster", "ratingDistribution"})
    \cup ({"media"} \X {"aiArtifacts"})
    \cup ({"social", "constructor"} \X {"followerRatio"})

\* the detail a detector attaches: a text for a flagged score only
DetailFor(s) == IF s < IssueThreshold THEN "flagged" ELSE "null"

Scored(s) == Obj(s, DetailFor(s))

SignalScores == { 10, 20, 40, 90 }

SignalValues ==
    { NullSignal, ObjNullScore, Num(10) } \cup { Scored(s) : s \in SignalScores }

\* a group in which every one of the names has the same value
Uniform(names, value) == [ n \in names |-> value ]

EmptyBundle == << >>

\* scenario A: three low text signals
ScenarioA ==
    [ text |-> [ aiDetection |-> Scored(10), templateMatching |-> Scored(10),
                 repetitionPattern |-> Scored(20) ] ]

\* scenario C: the five text signals at 0.9
ScenarioC == [ text |-> Uniform(TextSignals, Scored(90)) ]

\* two low account signals: below the default floor
TwoLowSignals ==
    [ account |-> [ accountAge |-> Scored(10), postingFrequency |-> Num(10) ] ]

\* the bundle the content script builds for one review: the text and account
\* signals, some of them null, and an empty behavioral group
ReviewBundle ==
    [ text |-> [ aiDetection |-> Scored(90), repetitionPattern |-> Scored(50),
                 sentimentConsistency |-> Scored(30), vocabularyDistribution |-> Scored(75),
                 templateMatching |-> Scored(40) ],
      account |-> [ accountAge |-> NullSignal, postingFrequency |-> NullSignal,
                    reviewDiversity |-> NullSignal,
                    profileCompleteness |-> Scored(30), networkConnections |-> NullSignal ],
      behavioral |-> << >> ]

\* ten signals: every text and account signal
TenSignals ==
    [ text |-> Uniform(TextSignals, Scored(75)),
      account |-> Uniform(AccountSignals, Scored(40)) ]

\* every weighted signal of every category
FullBundle ==
    [ c \in DOMAIN DefaultWeights |->
        Uniform(DOMAIN DefaultWeights[c], IF c = "behavioral" THEN Scored(20) ELSE Scored(90)) ]

\* three text signals on a threshold of the trust levels
OnThreshold(s) ==
    [ text |-> Uniform({"aiDetection", "repetitionPattern", "templateMatching"}, Num(s)) ]

BaseBundles ==
    { EmptyBundle, ScenarioA, ScenarioC, TwoLowSignals, ReviewBundle, TenSignals,
      FullBundle, OnThreshold(30), OnThreshold(50), OnThreshold(75) }

Absent == [kind |-> "absent"]

HasCategory(b, c) == c \in DOMAIN b

HasSignal(b, c, n) == HasCategory(b, c) /\ n \in DOMAIN b[c]

SlotValue(b, slot) == IF HasSignal(b, slot[1], slot[2]) THEN b[slot[1]][slot[2]] ELSE Absent

\* the bundle b with the signal of the slot set to the value
SetSignal(b, slot, value) ==
    LET c == slot[1]
        group == IF HasCategory(b, c) THEN b[c] ELSE << >>
    IN  (c :> ((slot[2] :> value) @@ group)) @@ b

Without(f, key) == [ k \in DOMAIN f \ {key} |-> f[k] ]

\* the bundle b without the signal of the slot; a group the deletion empties is
\* deleted with it
DeleteSignal(b, slot) ==
    LET group == Without(b[slot[1]], slot[2])
    IN  IF DOMAIN group = {} THEN Without(b, slot[1]) ELSE (slot[1] :> group) @@ b

\* the places in which two bundles differ
Differing(a, b) == { slot \in Slots : SlotValue(a, slot) # SlotValue(b, slot) }

\* the bundles a call on this scorer is made with: a base bundle first; then the
\* last bundle with one signal set or deleted, while fewer than MaxEdits places
\* differ from the first bundle, or with one place put back as the first bundle
\* had it
NextBundles ==
    IF ~first.called THEN BaseBundles
    ELSE LET differing == Differing(bundle, first.bundle)
             fresh == IF Cardinality(differing) < MaxEdits THEN Slots ELSE {}
         IN  { SetSignal(bundle, slot, value) : slot \in fresh, value \in SignalValues }
             \cup { DeleteSignal(bundle, slot) :
                      slot \in { t \in fresh : HasSignal(bundle, t[1], t[2]) } }
             \cup { IF HasSignal(first.bundle, slot[1], slot[2])
                    THEN SetSignal(bundle, slot, SlotValue(first.bundle, slot))
                    ELSE DeleteSignal(bundle, slot) : slot \in differing }

ComputeScore(signals) ==
    /\ bundle' = signals
    /\ result' = computeScore(signals)
    /\ first' = IF first.called
                THEN [ first EXCEPT !.others = first.others \/ signals # first.bundle ]
                ELSE [ called |-> TRUE, bundle |-> signals, result |-> result',
                       others |-> FALSE ]
    /\ UNCHANGED <<scorerVars, arg, call, ret, shellVars>>

-----------------------------------------------------------------------------

\* no single call is followed
NoSingleCall == [op |-> "none"]

Pending == [kind |-> "pending"]

Init ==
    /\ \E configArg \in Configs : Construct(configArg)
    /\ call = NoSingleCall
    /\ ret = Pending
    /\ EngineOnly

Next == \E signals \in NextBundles : ComputeScore(signals)

Spec == Init /\ [][Next]_vars

-----------------------------------------------------------------------------
(* What the properties below say about a call *)

Called == result.level # "NONE"

Sufficient == Called /\ result.level # "INSUFFICIENT_DATA"

TrustLevels == { "HIGH_TRUST", "MODERATE_TRUST", "LOW_TRUST", "VERY_LOW_TRUST" }

IsNumber(score) == score # JsNull /\ score.den > 0

\* the signals of a group that are neither null nor objects with a null score
NonNullSignals(group) ==
    { n \in DOMAIN group : group[n].kind # "null" /\ (group[n].kind = "object" => group[n].scored) }

RECURSIVE SumOver(_, _)
SumOver(f, keys) ==
    IF keys = {} THEN 0
    ELSE LET k == CHOOSE x \in keys : TRUE IN f[k] + SumOver(f, keys \ {k})

\* the non-null signals of the categories of b for which the scorer finds a table
NonNullCount(b) ==
    LET scored == { c \in DOMAIN b : Recognized(c) }
    IN  SumOver([ c \in scored |-> Cardinality(NonNullSignals(b[c])) ], scored)

\* the non-null signals of b that score below 0.2
LowSignals(b) ==
    { <<c, n>> \in Slots : /\ HasSignal(b, c, n)
                           /\ n \in NonNullSignals(b[c])
                           /\ b[c][n].score < HighSeverityThreshold }

-----------------------------------------------------------------------------
(* C1.  The level is INSUFFICIENT_DATA exactly when signalCount, the number *)
(* of non-null signals in the categories the scorer scores, is below        *)
(* minSignalsRequired; then score is null, confidence 0 and issues empty,   *)
(* however low the signals; otherwise score is a number and the level is    *)
(* one of the four trust levels.                                            *)
C1_InsufficientIffBelowFloor ==
    Called =>
        /\ result.signalCount = NonNullCount(bundle)
        /\ (result.level = "INSUFFICIENT_DATA") <=> (result.signalCount < config.minSignalsRequired)
        /\ result.level = "INSUFFICIENT_DATA" =>
              /\ result.score = JsNull
              /\ result.confidence = Rat(0, 1)
              /\ result.issues = << >>
        /\ result.level # "INSUFFICIENT_DATA" =>
              /\ IsNumber(result.score)
              /\ result.level \in TrustLevels

\* two very low signals under the default floor of 3: insufficient, nothing flagged
C1_Witness ==
    /\ Called
    /\ config.minSignalsRequired = 3
    /\ result.signalCount = 2
    /\ Cardinality(LowSignals(bundle)) = 2
    /\ result.level = "INSUFFICIENT_DATA"

-----------------------------------------------------------------------------
(* C2.  A category of the weight table in which every signal is null or has *)
(* no entry in the per-signal weight table contributes nothing: it is not   *)
(* counted in signalCount, produces no issue and is not averaged: it is    *)
(* not among the categories of the result's details, which are the ones    *)
(* counted and averaged.                                                    *)

\* no signal of the group is both non-null and weighted
NothingWeighted(c, group) ==
    \A n \in NonNullSignals(group) : n \notin DOMAIN weights[c]

IssueCategories(r) == { r.issues[i].category : i \in DOMAIN r.issues }

C2_UnweightedCategoryContributesNothing ==
    Called =>
        \A c \in DOMAIN bundle \cap DOMAIN weights :
            NothingWeighted(c, bundle[c]) =>
                /\ c \notin DOMAIN result.details
                /\ c \notin IssueCategories(result)

-----------------------------------------------------------------------------
(* C3.  The final score is the category-weighted average of the scores of   *)
(* the categories that contributed signals, normalized by the weights of    *)
(* those categories only.                                                   *)

RECURSIVE RatSum(_, _)
RatSum(f, keys) ==
    IF keys = {} THEN Rat(0, 1)
    ELSE LET k == CHOOSE x \in keys : TRUE IN RatAdd(f[k], RatSum(f, keys \ {k}))

\* the weighted average of the non-null signals of one group, from the tables
GroupAverage(c, group) ==
    LET names == NonNullSignals(group) \cap DOMAIN weights[c]
    IN  Rat(SumOver([ n \in names |-> group[n].score * weights[c][n] ], names),
            100 * SumOver([ n \in names |-> weights[c][n] ], names))

\* the contributing categories all have a number in the category weight table,
\* and the numbers do not sum to 0
Averaged(r) ==
    /\ DOMAIN r.details \subseteq DOMAIN categoryWeights
    /\ SumOver(categoryWeights, DOMAIN r.details) > 0

\* score * (sum of the weights) = sum of weight * category score
IsWeightedAverage(r) ==
    LET cats == DOMAIN r.details
    IN  RatScale(r.score, SumOver(categoryWeights, cats))
          = RatSum([ c \in cats |-> RatScale(r.details[c].score, categoryWeights[c]) ], cats)

\* a single category present: its own weighted average is the overall score
SingleCategoryRule(b, r) ==
    \A c \in DOMAIN weights :
        (DOMAIN b = {c} /\ ~NothingWeighted(c, b[c])) => r.score = GroupAverage(c, b[c])

\* the score rounded to two decimals is h hundredths
About(score, h) ==
    /\ score.num * 200 >= (2 * h - 1) * score.den
    /\ score.num * 200 < (2 * h + 1) * score.den

\* as stated: always the weighted average, and about 0.14 for scenario A
C3_WeightedAverageAbout014 ==
    Sufficient =>
        /\ IsWeightedAverage(result)
        /\ SingleCategoryRule(bundle, result)
        /\ bundle = ScenarioA =>
              /\ About(result.score, 14)
              /\ result.level = "VERY_LOW_TRUST"
              /\ result.signalCount = 3

\* amended: the weighted average when every contributing category has a numeric
\* category weight and there is one, 0.5 otherwise; 9/70, about 0.13, for scenario A
C3_WeightedAverage ==
    Sufficient =>
        /\ IF Averaged(result) THEN IsWeightedAverage(result) ELSE result.score = Rat(1, 2)
        /\ SingleCategoryRule(bundle, result)
        /\ bundle = ScenarioA =>
              /\ result.score = Rat(9, 70)
              /\ About(result.score, 13)
              /\ result.level = "VERY_LOW_TRUST"
              /\ result.signalCount = 3

\* scenario A scored, and a bundle with two categories of different weight scored
C3_Witness ==
    /\ Sufficient
    /\ first.bundle = ScenarioA
    /\ first.result.score = Rat(9, 70)
    /\ DOMAIN result.details = {"text", "account"}
    /\ result.details["text"].score # result.details["account"].score
    /\ result.score # result.details["text"].score

-----------------------------------------------------------------------------
(* C4.  confidence = min(1, signalCount / 10) * confidenceDecay.  With the  *)
(* defaults it does not decrease when signalCount grows, is 0.425 for 5     *)
(* signals, 0.85 from 10 signals on, and lies in [0, 1].                    *)

Min(a, b) == IF a < b THEN a ELSE b

Defaults == config = DefaultConfig

C4_Confidence ==
    Sufficient =>
        /\ result.confidence.num * 1000
             = Min(10, result.signalCount) * config.confidenceDecay * result.confidence.den
        /\ Defaults =>
              /\ result.signalCount = 5 => result.confidence = Rat(425, 1000)
              /\ result.signalCount >= 10 => result.confidence = Rat(85, 100)
              /\ RatLeq(Rat(0, 1), result.confidence) /\ RatLeq(result.confidence, Rat(1, 1))
              /\ first.result.level # "INSUFFICIENT_DATA" =>
                    /\ result.signalCount >= first.result.signalCount
                          => RatLeq(first.result.confidence, result.confidence)
                    /\ result.signalCount <= first.result.signalCount
                          => RatLeq(result.confidence, first.result.confidence)

\* ten signals scored first and eleven after: the confidence stays at 0.85
C4_Witness ==
    /\ Sufficient /\ Defaults
    /\ first.result.signalCount = 10
    /\ result.signalCount = 11
    /\ result.confidence = Rat(85, 100)
    /\ first.result.confidence = Rat(85, 100)

-----------------------------------------------------------------------------
(* C5.  The level is decided by the final score alone: HIGH_TRUST from      *)
(* 0.75, MODERATE_TRUST from 0.50 to below 0.75, LOW_TRUST from 0.30 to     *)
(* below 0.50, VERY_LOW_TRUST below 0.30; a higher score never has a worse  *)
(* level.                                                                   *)

Band(score) ==
    IF RatLeq(Rat(75, 100), score) THEN "HIGH_TRUST"
    ELSE IF RatLeq(Rat(50, 100), score) /\ RatLess(score, Rat(75, 100)) THEN "MODERATE_TRUST"
    ELSE IF RatLeq(Rat(30, 100), score) /\ RatLess(score, Rat(50, 100)) THEN "LOW_TRUST"
    ELSE "VERY_LOW_TRUST"

Rank(level) ==
    CASE level = "HIGH_TRUST" -> 3
      [] level = "MODERATE_TRUST" -> 2
      [] level = "LOW_TRUST" -> 1
      [] level = "VERY_LOW_TRUST" -> 0

C5_LevelFromScore ==
    Sufficient =>
        /\ result.level = Band(result.score)
        /\ first.result.level # "INSUFFICIENT_DATA" =>
              /\ RatLeq(first.result.score, result.score)
                    => Rank(first.result.level) <= Rank(result.level)
              /\ RatLeq(result.score, first.result.score)
                    => Rank(result.level) <= Rank(first.result.level)

\* a score exactly on the 0.75 threshold is HIGH_TRUST, and a lower score scored
\* after it has a lower level
C5_Witness ==
    /\ Sufficient
    /\ first.result.level = "HIGH_TRUST"
    /\ first.result.score = Rat(75, 100)
    /\ RatLess(result.score, first.result.score)
    /\ result.level = "MODERATE_TRUST"

-----------------------------------------------------------------------------
(* C6.  The issues of a sufficient result are exactly one Issue for each    *)
(* non-null signal below 0.4 in a category that is in the bundle and in the *)
(* weight table; each carries the signal's category, name, score and        *)
(* detail, with severity high exactly below 0.2 and medium otherwise.       *)

FlaggedSlots(b) ==
    { slot \in UNION { {c} \X DOMAIN b[c] : c \in DOMAIN b \cap DOMAIN weights } :
        /\ slot[2] \in NonNullSignals(b[slot[1]])
        /\ b[slot[1]][slot[2]].score < 40 }

ExpectedIssue(b, c, n) ==
    [ category |-> c,
      signal   |-> n,
      score    |-> b[c][n].score,
      detail   |-> IF b[c][n].kind = "object" THEN b[c][n].detail ELSE "null",
      severity |-> IF b[c][n].score < 20 THEN "high" ELSE "medium" ]

C6_IssuesAreTheLowSignals ==
    Sufficient =>
        /\ Len(result.issues) = Cardinality(FlaggedSlots(bundle))
        /\ { result.issues[i] : i \in DOMAIN result.issues }
             = { ExpectedIssue(bundle, slot[1], slot[2]) : slot \in FlaggedSlots(bundle) }

-----------------------------------------------------------------------------
(* C7.  Two calls on one scorer with the same bundle return the same score, *)
(* level, confidence, issues and signalCount, whatever was scored between   *)
(* them, and no call changes the scorer's weights, thresholds or config.    *)

\* the config a scorer constructed with the argument a has
ConstructedConfig(a) ==
    [ k \in DOMAIN a \cup DOMAIN DefaultConfig |->
        IF k \in DOMAIN a THEN a[k] ELSE DefaultConfig[k] ]

C7_SameBundleSameResult ==
    Called =>
        /\ bundle = first.bundle => result = first.result
        /\ weights = DefaultWeights
        /\ categoryWeights = DefaultCategoryWeights
        /\ thresholds = DefaultThresholds
        /\ config = ConstructedConfig(arg)

\* the first bundle scored again after another bundle was scored
C7_Witness ==
    /\ Sufficient
    /\ first.others
    /\ bundle = first.bundle
    /\ result = first.result
    /\ result.issues # << >>

-----------------------------------------------------------------------------
(* C8.  With every other signal fixed, a lower score of one non-null signal *)
(* never gives a higher score of its category, nor a higher final score.    *)

ScoredAt(b, slot) ==
    /\ HasSignal(b, slot[1], slot[2])
    /\ slot[2] \in NonNullSignals(b[slot[1]])

\* the last bundle is the first one but for the score of the signal at slot
OnlyScoreChanged(slot) ==
    /\ Differing(bundle, first.bundle) \subseteq {slot}
    /\ ScoredAt(bundle, slot)
    /\ ScoredAt(first.bundle, slot)

NotHigher(r, q, c) ==
    /\ (c \in DOMAIN r.details /\ c \in DOMAIN q.details)
          => RatLeq(r.details[c].score, q.details[c].score)
    /\ (r.level # "INSUFFICIENT_DATA" /\ q.level # "INSUFFICIENT_DATA")
          => RatLeq(r.score, q.score)

C8_LowerSignalNeverRaisesScore ==
    Called =>
        \A slot \in Slots :
            OnlyScoreChanged(slot) =>
                /\ SlotValue(bundle, slot).score <= SlotValue(first.bundle, slot).score
                      => NotHigher(result, first.result, slot[1])
                /\ SlotValue(first.bundle, slot).score <= SlotValue(bundle, slot).score
                      => NotHigher(first.result, result, slot[1])

\* one weighted signal lowered: its category's score and the final score are lower
C8_Witness ==
    /\ Sufficient
    /\ first.result.level # "INSUFFICIENT_DATA"
    /\ \E slot \in Slots :
          /\ OnlyScoreChanged(slot)
          /\ SlotValue(bundle, slot).score < SlotValue(first.bundle, slot).score
          /\ DOMAIN result.details = {"text", "account"}
          /\ RatLess(result.details[slot[1]].score, first.result.details[slot[1]].score)
          /\ RatLess(result.score, first.result.score)

-----------------------------------------------------------------------------
(* C9.  A category that is not text, account, behavioral or media is        *)
(* ignored: adding it to a bundle, whatever its signals, leaves score,      *)
(* level, confidence, issues, signalCount and details as they were.         *)

TableCategories == { "text", "account", "behavioral", "media" }

C9_UnknownCategoryIgnored ==
    Called =>
        \A c \in DOMAIN bundle \ TableCategories :
            (c \notin DOMAIN first.bundle /\ Without(bundle, c) = first.bundle)
                => result = first.result

-----------------------------------------------------------------------------
(* C10.  What of the scorer's configuration the constructor's argument      *)
(* overrides.                                                               *)

Given(key, default) == IF key \in DOMAIN arg THEN arg[key] ELSE default

\* the level of a score under the thresholds t
BandUnder(t, score) ==
    IF score.num * 100 >= t.HIGH_TRUST * score.den THEN "HIGH_TRUST"
    ELSE IF score.num * 100 >= t.MODERATE_TRUST * score.den THEN "MODERATE_TRUST"
    ELSE IF score.num * 100 >= t.LOW_TRUST * score.den THEN "LOW_TRUST"
    ELSE "VERY_LOW_TRUST"

UsesTunables ==
    /\ (result.level = "INSUFFICIENT_DATA")
          <=> (result.signalCount < Given("minSignalsRequired", 3))
    /\ Sufficient =>
          result.confidence.num * 1000
            = Min(10, result.signalCount) * Given("confidenceDecay", 85) * result.confidence.den

\* as stated: the tables, the thresholds and the two tunables are all overridable
C10_EverythingOverridable ==
    Called =>
        /\ UsesTunables
        /\ weights = Given("weights", DefaultWeights)
        /\ categoryWeights = Given("categoryWeights", DefaultCategoryWeights)
        /\ thresholds = Given("thresholds", DefaultThresholds)
        /\ Sufficient => result.level = BandUnder(Given("thresholds", DefaultThresholds), result.score)

\* amended: the two tunables are overridable, the tables and thresholds are the
\* defaults whatever the argument holds
C10_OnlyTunablesOverridable ==
    Called =>
        /\ UsesTunables
        /\ weights = DefaultWeights
        /\ categoryWeights = DefaultCategoryWeights
        /\ thresholds = DefaultThresholds
        /\ Sufficient =>
              /\ result.level = BandUnder(DefaultThresholds, result.score)
              /\ SingleCategoryRule(bundle, result)

\* a scorer constructed with confidenceDecay 0.5 and tables of its own: the
\* decay is used, the floor stays 3, the level is the one of the default thresholds
C10_Witness ==
    /\ Sufficient
    /\ "thresholds" \in DOMAIN arg
    /\ "minSignalsRequired" \notin DOMAIN arg
    /\ arg.confidenceDecay = 50
    /\ result.signalCount = 3
    /\ result.confidence = Rat(15, 100)
    /\ result.level = "HIGH_TRUST"
    /\ BandUnder(arg.thresholds, result.score) = "MODERATE_TRUST"

-----------------------------------------------------------------------------
(* Single calls.  A call either returns a value or throws.                  *)

Returned(value) == [kind |-> "returned", value |-> value]

Thrown(error) == [kind |-> "thrown", error |-> error]

Done == ret # Pending

-----------------------------------------------------------------------------
(* computeScore on any bundle: where it can throw *)

\* Object.entries(signals) in _scoreCatgory: a TypeError when the group is null
EntriesThrows(signalGroup) == signalGroup = JsNull

\* typeof null is 'object', so reading signalValue.score of a null signal would
\* be a TypeError: without the continue on null signals
ScoreReadThrowsUnguarded(signalValue) == signalValue.kind = "null"

\* typeof null is 'object', so reading signalValue.score of a null signal would
\* be a TypeError: the continue on null signals comes first
ScoreReadThrows(signalValue) == ~IsNullish(signalValue) /\ signalValue.kind = "null"

\* the outcome of computeScore(signals): only the categories the scorer finds a
\* table for reach _scoreCatgory
computeScoreOutcome(signals) ==
    LET scored == { c \in DOMAIN signals : Recognized(c) }
    IN  IF \E c \in scored : EntriesThrows(signals[c]) THEN Thrown("TypeError")
        ELSE IF \E c \in scored : \E n \in DOMAIN signals[c] : ScoreReadThrows(signals[c][n])
             THEN Thrown("TypeError")
        ELSE Returned(computeScore(signals))

\* groups a caller can put under a category: none of its signals, one signal of
\* any kind, or null in place of the group
AnyGroups ==
    { JsNull, << >> } \cup { [ followerRatio |-> v ] : v \in SignalValues }
                      \cup { [ aiArtifacts |-> v ] : v \in SignalValues }

\* one text signal at 0 beside two media signals at 0.75
OneLowSignal ==
    [ text |-> [ aiDetection |-> Scored(0) ],
      media |-> [ reverseImageMatch |-> Scored(75), exifAnalysis |-> Scored(75) ] ]

AnyBundles ==
    BaseBundles
    \cup { OneLowSignal }
    \cup { (c :> g) @@ b : c \in {"text", "media", "social", "constructor"},
                           g \in AnyGroups, b \in BaseBundles }
    \cup { SetSignal(b, slot, v) : b \in BaseBundles, slot \in Slots, v \in SignalValues }

-----------------------------------------------------------------------------
(* JavaScript values of the profile data.  A date is a string; JsDate(t) is *)
(* a string that parses to the time t, in hours since the epoch, and any    *)
(* JsString is a string that does not parse as a date.                      *)

JsNumber(n) == [kind |-> "number", n |-> n]

JsString(s) == [kind |-> "string", s |-> s]

JsDate(t) == [kind |-> "date", t |-> t]

JsArray(items) == [kind |-> "array", items |-> items]

\* ToBoolean(v): undefined, null, 0 and the empty string are falsy
Truthy(v) ==
    CASE v.kind \in {"undefined", "null"} -> FALSE
      [] v.kind = "number" -> v.n # 0
      [] v.kind = "string" -> v.s # ""
      [] OTHER -> TRUE

\* a || b
Or(a, b) == IF Truthy(a) THEN a ELSE b

\* data.field of the constructor's argument: undefined when the field is absent
Field(data, field) == IF field \in DOMAIN data THEN data[field] ELSE JsUndefined

NaN == [nan |-> TRUE, t |-> 0]

Time(t) == [nan |-> FALSE, t |-> t]

\* new Date(v).getTime(): NaN for a string that does not parse and for
\* undefined, 0 for null, the number itself for a number
GetTime(v) ==
    CASE v.kind = "date" -> Time(v.t)
      [] v.kind = "number" -> Time(v.n)
      [] v.kind = "null" -> Time(0)
      [] OTHER -> NaN

\* ToNumber(v) of a number or null
ToNumber(v) == IF v.kind = "number" THEN v.n ELSE 0

HoursPerDay == 24

\* Date.now(), in hours since the epoch
Now == 400 * HoursPerDay

-----------------------------------------------------------------------------
(* ReviewerProfile *)

ProfileFields ==
    { "displayName", "avatarUrl", "bio", "location", "accountCreated", "firstReviewDate",
      "totalReviews", "helpfulVotes", "reviewDate" }

ProfileArrays == { "ratings", "reviewDates", "reviewCategories" }

\* new ReviewerProfile(data): this.field = data.field || null, and || [] for the lists
ReviewerProfile(data) ==
    [ f \in ProfileFields \cup ProfileArrays \cup {"verifiedPurchase"} |->
        IF f \in ProfileFields THEN Or(Field(data, f), JsNull)
        ELSE IF f \in ProfileArrays THEN Or(Field(data, f), JsArray(<< >>))
        ELSE Truthy(Field(data, f)) ]

-----------------------------------------------------------------------------
(* AccountAnalyzer.  A signal is null or {score, detail}; the score is an   *)
(* exact rational.  A detail that quotes numbers is the tuple of its parts. *)

Signal(score, detail) == Obj(score, detail)

burstThreshold == 5

reviewsPerDayMax == 3

\* allSameRatingThreshold, 0.9
allSameRatingThreshold == Rat(9, 10)

\* the reference date taken from firstReviewDate first
_scoreAccountAgeFromFirstReview(profile) ==
    IF ~Truthy(profile.accountCreated) /\ ~Truthy(profile.firstReviewDate)
    THEN NullSignal
    ELSE LET referenceDate == Or(profile.firstReviewDate, profile.accountCreated)
             reference == GetTime(referenceDate)
             \* ageDays < days: false when the age is NaN
             Under(days) == ~reference.nan /\ Now - reference.t < days * HoursPerDay
         IN  IF Under(7) THEN Signal(Hundredths(10), "Account created within the last week")
             ELSE IF Under(30) THEN Signal(Hundredths(30), "Account less than 30 days old")
             ELSE IF Under(90) THEN Signal(Hundredths(60), JsNull)
             ELSE Signal(Hundredths(90), JsNull)

_scoreAccountAge(profile) ==
    IF ~Truthy(profile.accountCreated) /\ ~Truthy(profile.firstReviewDate)
    THEN NullSignal
    ELSE LET referenceDate == Or(profile.accountCreated, profile.firstReviewDate)
             reference == GetTime(referenceDate)
             \* ageDays < days: false when the age is NaN
             Under(days) == ~reference.nan /\ Now - reference.t < days * HoursPerDay
         IN  IF Under(7) THEN Signal(Hundredths(10), "Account created within the last week")
             ELSE IF Under(30) THEN Signal(Hundredths(30), "Account less than 30 days old")
             ELSE IF Under(90) THEN Signal(Hundredths(60), JsNull)
             ELSE Signal(Hundredths(90), JsNull)

Max(a, b) == IF a >= b THEN a ELSE b

RECURSIVE MaxOf(_)
MaxOf(numbers) ==
    LET n == CHOOSE x \in numbers : TRUE
    IN  IF numbers = {n} THEN n ELSE Max(n, MaxOf(numbers \ {n}))

\* how many of the items the key function maps to the key
CountOf(items, key, Key(_)) == Cardinality({ i \in DOMAIN items : Key(items[i]) = key })

\* date.toISOString().split('T')[0]: the calendar day of a valid time
DayOf(time) == time.t \div HoursPerDay

\* date.toISOString() throws a RangeError for an invalid date
_scorePostingFrequency(profile) ==
    IF Len(profile.reviewDates.items) < 2
    THEN Returned(NullSignal)
    ELSE LET dates == [ i \in DOMAIN profile.reviewDates.items |->
                          GetTime(profile.reviewDates.items[i]) ]
         IN  IF \E i \in DOMAIN dates : dates[i].nan
             THEN Thrown("RangeError")
             ELSE LET days == { DayOf(dates[i]) : i \in DOMAIN dates }
                      maxInOneDay == MaxOf({ CountOf(dates, d, DayOf) : d \in days })
                      \* avgPerDay = dates.length / Object.keys(dateCounts).length
                  IN  IF maxInOneDay > burstThreshold
                      THEN Returned(Signal(Hundredths(15),
                                           <<maxInOneDay, " reviews posted on a single day">>))
                      ELSE IF Len(dates) > reviewsPerDayMax * Cardinality(days)
                      THEN Returned(Signal(Hundredths(30), "Unusually high review frequency"))
                      ELSE Returned(Signal(Hundredths(80), JsNull))

RatSub(a, b) == Rat(a.num * b.den - b.num * a.den, a.den * b.den)

RatMul(a, b) == Rat(a.num * b.num, a.den * b.den)

RatMax(a, b) == IF RatLess(a, b) THEN b ELSE a

RatMin(a, b) == IF RatLess(b, a) THEN b ELSE a

Values(items) == { items[i] : i \in DOMAIN items }

Same(x) == x

_scoreReviewDiversity(profile) ==
    LET ratings == profile.ratings.items
        categories == profile.reviewCategories.items
    IN  IF Len(ratings) < 3 THEN NullSignal
        ELSE LET maxCount == MaxOf({ CountOf(ratings, r, Same) : r \in Values(ratings) })
                 maxRatingPct == Rat(maxCount, Len(ratings))
                 \* uniqueCategories / length is NaN for the empty list: not < 0.1
                 concentrated == /\ Len(categories) > 10
                                 /\ 10 * Cardinality(Values(categories)) < Len(categories)
                 ratingSpread == Cardinality(Values(ratings))
                 diversityScore ==
                     RatMin(Rat(1, 1),
                            RatAdd(Rat(ratingSpread, 10),
                                   RatMul(RatSub(Rat(1, 1), maxRatingPct), Rat(1, 2))))
             IN  IF RatLeq(allSameRatingThreshold, maxRatingPct)
                 THEN Signal(Hundredths(20), <<maxRatingPct, "% of reviews are one rating">>)
                 ELSE IF concentrated
                 THEN Signal(Hundredths(35), "Reviews concentrated in a single product category")
                 ELSE Signal(RatMax(Hundredths(40), diversityScore), JsNull)

CompletenessFields ==
    { "displayName", "avatarUrl", "bio", "location", "helpfulVotes", "totalReviews" }

_scoreProfileCompleteness(profile) ==
    LET completeness == Cardinality({ f \in CompletenessFields : Truthy(profile[f]) })
        score == Rat(completeness, Cardinality(CompletenessFields))
    IN  IF RatLess(score, Hundredths(30))
        THEN Signal(Hundredths(30), "Minimal profile information")
        ELSE Signal(RatMax(Hundredths(50), score), JsNull)

_scoreNetworkSignals(profile) ==
    IF profile.helpfulVotes.kind # "undefined" /\ Truthy(profile.totalReviews)
    THEN LET helpfulRatio == Rat(ToNumber(profile.helpfulVotes), profile.totalReviews.n)
         IN  IF RatLess(helpfulRatio, Rat(1, 10)) /\ profile.totalReviews.n > 20
             THEN Signal(Hundredths(40), "Very low helpful vote ratio despite many reviews")
             ELSE IF RatLess(Rat(1, 1), helpfulRatio)
             THEN Signal(Hundredths(90), JsNull)
             ELSE NullSignal
    ELSE NullSignal

\* AccountAnalyzer.analyze: the five signals, or the error of the detector that throws
AccountAnalyzer_analyze(profile) ==
    LET postingFrequency == _scorePostingFrequency(profile)
    IN  IF postingFrequency.kind = "thrown" THEN postingFrequency
        ELSE Returned([ accountAge          |-> _scoreAccountAge(profile),
                        postingFrequency    |-> postingFrequency.value,
                        reviewDiversity     |-> _scoreReviewDiversity(profile),
                        profileCompleteness |-> _scoreProfileCompleteness(profile),
                        networkConnections  |-> _scoreNetworkSignals(profile) ])

\* the times the list holds, in the order Array.prototype.sort((a, b) => a - b)
\* leaves them: ascending; with a NaN among them the comparator is inconsistent
\* and the order is whatever the engine's sort makes of it
SortOrders(times) ==
    IF \E i \in DOMAIN times : times[i].nan
    THEN { [ i \in DOMAIN times |-> times[p[i]] ] : p \in Permutations(DOMAIN times) }
    ELSE { SortSeq(times, LAMBDA a, b : a.t < b.t) }

\* the times of the profiles that have the date field, in the profiles' order
RECURSIVE TimesOf(_, _)
TimesOf(profiles, field) ==
    IF profiles = << >> THEN << >>
    ELSE IF Truthy(Head(profiles)[field])
         THEN <<GetTime(Head(profiles)[field])>> \o TimesOf(Tail(profiles), field)
         ELSE TimesOf(Tail(profiles), field)

\* reviewDates[i] - reviewDates[i - 1] < 86400000: false when either is NaN
Within24Hours(earlier, later) ==
    ~earlier.nan /\ ~later.nan /\ later.t - earlier.t < HoursPerDay

\* the lengths of the clusters of three or more the loop collects, from index i
\* on, the current cluster having the given length
RECURSIVE ClusterLengths(_, _, _)
ClusterLengths(reviewDates, i, current) ==
    IF i > Len(reviewDates)
    THEN IF current >= 3 THEN {current} ELSE {}
    ELSE IF Within24Hours(reviewDates[i - 1], reviewDates[i])
         THEN ClusterLengths(reviewDates, i + 1, current + 1)
         ELSE (IF current >= 3 THEN {current} ELSE {})
              \cup ClusterLengths(reviewDates, i + 1, 1)

\* _detectTimingClusters once the review dates are collected and sorted
TimingClusterOf(reviewDates) ==
    IF Len(reviewDates) < 5 THEN NullSignal
    ELSE LET clusters == ClusterLengths(reviewDates, 2, 1)
         IN  IF clusters = {} THEN Signal(Hundredths(80), JsNull)
             ELSE LET largestCluster == MaxOf(clusters)
                      clusterRatio == Rat(largestCluster, Len(reviewDates))
                  IN  IF RatLess(Rat(1, 2), clusterRatio)
                      THEN Signal(Hundredths(15),
                                  <<largestCluster, " of ", Len(reviewDates),
                                    " reviews posted within 24 hours of each other">>)
                      ELSE Signal(RatMax(Hundredths(30), RatSub(Rat(1, 1), clusterRatio)),
                                  IF RatLess(Rat(3, 10), clusterRatio)
                                  THEN "Review timing shows clustering patterns"
                                  ELSE JsNull)

\* the signals _detectTimingClusters can return: one for each order of the sort
_detectTimingClusters(profiles) ==
    { TimingClusterOf(reviewDates) : reviewDates \in SortOrders(TimesOf(profiles, "reviewDate")) }

AccountAgeClusterOfFromFive(creationDates) ==
    IF Len(creationDates) < 5 THEN NullSignal
    ELSE LET oldest == creationDates[1]
             newest == creationDates[Len(creationDates)]
             \* range < weekMs: false when the range is NaN
             withinWeek == /\ ~oldest.nan /\ ~newest.nan
                           /\ newest.t - oldest.t < 7 * HoursPerDay
         IN  IF withinWeek /\ Len(creationDates) >= 5
             THEN Signal(Hundredths(10),
                         <<Len(creationDates), " reviewer accounts created within the same week">>)
             ELSE Signal(Hundredths(70), JsNull)

\* _detectAccountAgeCluster once the creation dates are collected and sorted
AccountAgeClusterOf(creationDates) ==
    IF Len(creationDates) < 3 THEN NullSignal
    ELSE LET oldest == creationDates[1]
             newest == creationDates[Len(creationDates)]
             \* range < weekMs: false when the range is NaN
             withinWeek == /\ ~oldest.nan /\ ~newest.nan
                           /\ newest.t - oldest.t < 7 * HoursPerDay
         IN  IF withinWeek /\ Len(creationDates) >= 5
             THEN Signal(Hundredths(10),
                         <<Len(creationDates), " reviewer accounts created within the same week">>)
             ELSE Signal(Hundredths(70), JsNull)

_detectAccountAgeCluster(profiles) ==
    { AccountAgeClusterOf(creationDates) :
        creationDates \in SortOrders(TimesOf(profiles, "accountCreated")) }

\* AccountAnalyzer.analyzeBatch: the outcomes it can have
AccountAnalyzer_analyzeBatch(profiles) ==
    LET individual == [ i \in DOMAIN profiles |-> AccountAnalyzer_analyze(profiles[i]) ]
    IN  IF \E i \in DOMAIN individual : individual[i].kind = "thrown"
        THEN { individual[CHOOSE i \in DOMAIN individual :
                            /\ individual[i].kind = "thrown"
                            /\ \A j \in 1..(i - 1) : individual[j].kind # "thrown"] }
        ELSE { Returned([ individual |-> [ i \in DOMAIN individual |-> individual[i].value ],
                          batch |-> [ timingCluster |-> timing, accountAgeCluster |-> age ] ]) :
                 timing \in _detectTimingClusters(profiles),
                 age \in _detectAccountAgeCluster(profiles) }

-----------------------------------------------------------------------------
(* The profile data the account detectors are called on *)

\* the longest list of review dates, and of ratings, enumerated in full
MaxDates == 3

MaxRatings == 3

\* the most profiles of a batch enumerated in full
MaxProfiles == 5

SeqsUpTo(S, n) == UNION { [ 1..k -> S ] : k \in 0..n }

Repeat(x, n) == [ i \in 1..n |-> x ]

\* the data with the field absent, or with one of the values
OptionalField(field, values) == { << >> } \cup { (field :> v) : v \in values }

Merge(A, B) == { a @@ b : a \in A, b \in B }

DaysAgo(days) == JsDate(Now - days * HoursPerDay)

NotADate == JsString("not a date")

AgeDays == { 0, 3, 6, 7, 29, 30, 89, 90, 200 }

AgeData ==
    Merge(OptionalField("accountCreated",
                        { DaysAgo(d) : d \in AgeDays } \cup { NotADate, JsNull, JsString("") }),
          OptionalField("firstReviewDate", { DaysAgo(d) : d \in AgeDays } \cup { NotADate }))

NetworkData ==
    Merge(OptionalField("helpfulVotes", { JsNumber(0), JsNumber(2), JsNumber(30) }),
          OptionalField("totalReviews", { JsNumber(0), JsNumber(5), JsNumber(21), JsNumber(25) }))

CompletenessData ==
    Merge(Merge(Merge(OptionalField("displayName", { JsString("J. Doe"), JsString("") }),
                      OptionalField("avatarUrl", { JsString("https://a/1.png") })),
                Merge(OptionalField("bio", { JsString("I review things") }),
                      OptionalField("location", { JsString("Leeds"), JsNull }))),
          { << >>, [ helpfulVotes |-> JsNumber(30), totalReviews |-> JsNumber(25) ] })

\* review dates: two hours of one day, the next day, null, and a string that is no date
DateItems == { DaysAgo(10), JsDate(Now - 10 * HoursPerDay + 2), DaysAgo(9), JsNull, NotADate }

FrequencyData ==
    { [ reviewDates |-> JsArray(dates) ] :
        dates \in SeqsUpTo(DateItems, MaxDates)
                  \cup { Repeat(DaysAgo(10), 6), Repeat(DaysAgo(10), 4),
                         Repeat(DaysAgo(10), 6) \o <<NotADate>>,
                         Repeat(DaysAgo(10), 4) \o <<DaysAgo(9)>> } }

RatingLists ==
    SeqsUpTo({1, 4, 5}, MaxRatings)
    \cup { Repeat(5, 9) \o <<1>>, Repeat(5, 8) \o <<1, 4>>, <<1, 2, 3, 4, 5, 45>>,
           <<5, 5, 4, 1>> }

CategoryLists == { Repeat("books", 11), Repeat("books", 10), <<"books", "garden">> }

DiversityData ==
    { [ ratings |-> JsArray(ratings) ] : ratings \in RatingLists }
    \cup { [ ratings |-> JsArray(ratings), reviewCategories |-> JsArray(categories) ] :
             ratings \in RatingLists, categories \in CategoryLists }

ProfileData == AgeData \cup NetworkData \cup CompletenessData \cup FrequencyData \cup DiversityData

\* the profiles of a batch: reviews two hours apart from accounts a day apart,
\* a review some days later, and a profile without dates
BatchData ==
    { [ reviewDate |-> DaysAgo(10), accountCreated |-> DaysAgo(200) ],
      [ reviewDate |-> JsDate(Now - 10 * HoursPerDay + 2), accountCreated |-> DaysAgo(199) ],
      [ reviewDate |-> DaysAgo(7), accountCreated |-> DaysAgo(100) ],
      << >> }

\* a profile whose review was posted the given hours before now
ReviewedHoursAgo(hours) == [ reviewDate |-> JsDate(Now - hours) ]

\* sixteen reviews two days apart
Spaced16 == [ i \in 1..16 |-> ReviewedHoursAgo(48 * i) ]

\* sixteen reviews two days apart, but for three within two hours
Clustered16 == [ i \in 1..16 |-> ReviewedHoursAgo(IF i <= 3 THEN 48 + i - 1 ELSE 48 * i) ]

\* five reviews twenty hours apart, and three far from them
Chained8 == [ i \in 1..8 |-> ReviewedHoursAgo(IF i <= 5 THEN 20 * i ELSE 400 * i) ]

\* eight reviews two days apart
Spaced8 == [ i \in 1..8 |-> ReviewedHoursAgo(48 * i) ]

TimingBatches == { Spaced16, Clustered16, Chained8, Spaced8 }

ProfileBatches ==
    SeqsUpTo(BatchData, MaxProfiles)
    \cup TimingBatches
    \cup { Repeat([ reviewDate |-> DaysAgo(10) ], 3)
             \o << [ reviewDate |-> DaysAgo(7) ], [ reviewDate |-> DaysAgo(5) ],
                   [ reviewDate |-> DaysAgo(3) ] >>,
           Repeat([ reviewDate |-> DaysAgo(10) ], 3)
             \o << [ reviewDate |-> DaysAgo(7) ], [ reviewDate |-> DaysAgo(5) ],
                   [ reviewDate |-> DaysAgo(3) ], [ reviewDate |-> DaysAgo(1) ],
                   [ reviewDate |-> DaysAgo(20) ], [ reviewDate |-> DaysAgo(30) ],
                   [ reviewDate |-> DaysAgo(40) ] >>,
           Repeat([ reviewDate |-> NotADate, accountCreated |-> NotADate ], 5),
           Repeat([ reviewDate |-> DaysAgo(10), accountCreated |-> DaysAgo(200) ], 4)
             \o << [ reviewDate |-> NotADate, accountCreated |-> NotADate ] >>,
           Repeat([ reviewDate |-> NotADate ], 4),
           << [ reviewDates |-> JsArray(<<DaysAgo(10), NotADate>>) ] >> }

AnalyzeAccount ==
    /\ call.op = "AccountAnalyzer.analyze"
    /\ ret = Pending
    /\ ret' = AccountAnalyzer_analyze(ReviewerProfile(call.input))
    /\ UNCHANGED <<scorerVars, bundle, result, first, arg, call, shellVars>>

AnalyzeAccountBatch ==
    /\ call.op = "AccountAnalyzer.analyzeBatch"
    /\ ret = Pending
    /\ ret' \in AccountAnalyzer_analyzeBatch([ i \in DOMAIN call.input |-> ReviewerProfile(call.input[i]) ])
    /\ UNCHANGED <<scorerVars, bundle, result, first, arg, call, shellVars>>

-----------------------------------------------------------------------------
(* Texts.  A text is a string, null or undefined.  A string is its leading  *)
(* blanks, its tokens separated by one blank each, and its trailing blanks. *)
(* A token is a word, whether its first letter is a capital, and the        *)
(* punctuation mark that follows it, if any.  The words come from a closed  *)
(* lexicon in which no word contains another or a blank.                    *)

Token(w, cap, p) == [w |-> w, cap |-> cap, p |-> p]

W(w) == Token(w, FALSE, "")

Text(lead, tokens, trail) ==
    [kind |-> "string", lead |-> lead, tokens |-> tokens, trail |-> trail]

RECURSIVE SumRange(_, _, _)
SumRange(numbers, from, to) ==
    IF from > to THEN 0
    ELSE IF from = to THEN numbers[from]
    ELSE LET middle == (from + to) \div 2
         IN  SumRange(numbers, from, middle) + SumRange(numbers, middle + 1, to)

SumSeq(numbers) == SumRange(numbers, 1, Len(numbers))

TokenLength(token) == Len(token.w) + Len(token.p)

\* the length of the tokens joined by single blanks
JoinedLength(tokens) ==
    IF tokens = << >> THEN 0
    ELSE SumSeq([ i \in DOMAIN tokens |-> TokenLength(tokens[i]) ]) + Len(tokens) - 1

\* text.length
Length(text) == text.lead + JoinedLength(text.tokens) + text.trail

\* !text: null, undefined and the empty string
IsFalsyText(text) == text.kind # "string" \/ Length(text) = 0

\* text.toLowerCase()
toLowerCase(text) ==
    [ text EXCEPT !.tokens = [ i \in DOMAIN text.tokens |->
                                 [ text.tokens[i] EXCEPT !.cap = FALSE ] ] ]

\* text.trim()
trim(text) == [ text EXCEPT !.lead = 0, !.trail = 0 ]

\* a token of no characters: what split gives for a blank at an end of the text
EmptyWord == W("")

\* text.split(/\s+/): the tokens, and an empty string for the blanks at either end
\* (the empty text gives one empty string)
SplitWords(text) ==
    IF text.tokens = << >> /\ text.lead + text.trail = 0 THEN <<EmptyWord>>
    ELSE (IF text.lead > 0 \/ (text.tokens = << >> /\ text.trail > 0)
          THEN <<EmptyWord>> ELSE << >>)
         \o text.tokens
         \o (IF text.trail > 0 \/ (text.tokens = << >> /\ text.lead > 0)
             THEN <<EmptyWord>> ELSE << >>)

\* the words of the lexicon that hold other characters than letters, without them
NonLetters ==
    [ w \in { "it's", "game-changer", "won't", "i've", "don't", "couldn't", "today's",
              "husband/wife", "$20", "5/5", "2", "10", "10mm" } |->
        CASE w = "it's" -> "its"
          [] w = "game-changer" -> "gamechanger"
          [] w = "won't" -> "wont"
          [] w = "i've" -> "ive"
          [] w = "don't" -> "dont"
          [] w = "couldn't" -> "couldnt"
          [] w = "today's" -> "todays"
          [] w = "husband/wife" -> "husbandwife"
          [] w = "10mm" -> "mm"
          [] OTHER -> "" ]

\* word.replace(/[^a-z]/g, '') of a lower-case token: the punctuation goes too
Clean(token) == IF token.w \in DOMAIN NonLetters THEN NonLetters[token.w] ELSE token.w

\* the phrase, a tuple of words, is in the tokens at index i: its words follow
\* each other with no punctuation between them
PhraseAt(tokens, phrase, i) ==
    /\ i + Len(phrase) - 1 <= Len(tokens)
    /\ \A j \in DOMAIN phrase :
          /\ tokens[i + j - 1].w = phrase[j]
          /\ ~tokens[i + j - 1].cap
          /\ j < Len(phrase) => tokens[i + j - 1].p = ""

\* text.match(regex).length for the regex of a phrase with the flags g and i
Occurrences(tokens, phrase) ==
    LET lower == [ i \in DOMAIN tokens |-> [ tokens[i] EXCEPT !.cap = FALSE ] ]
    IN  Cardinality({ i \in DOMAIN lower : PhraseAt(lower, phrase, i) })

\* text.includes(phrase)
Includes(tokens, phrase) == \E i \in DOMAIN tokens : PhraseAt(tokens, phrase, i)

-----------------------------------------------------------------------------
(* TextAnalyzer *)

aiTellPhrases ==
    <<
      <<"it's", "worth", "noting">>, <<"it", "is", "worth", "noting">>,
      <<"a", "testament", "to">>, <<"game-changer">>, <<"game", "changer">>,
      <<"delve", "into">>, <<"tapestry">>, <<"multifaceted">>,
      <<"in", "today's", "world">>, <<"in", "the", "realm", "of">>,
      <<"navigating", "the">>, <<"stands", "out", "as">>,
      <<"it", "should", "be", "noted">>, <<"in", "this", "regard">>, <<"underscores">>,
      <<"fostering">>, <<"holistic">>, <<"elevate", "the">>, <<"elevates", "the">>,
      <<"truly", "remarkable">>, <<"new", "heights">>,
      <<"commitment", "to", "excellence">>, <<"user", "experience">>,
      <<"attention", "to", "detail", "is">>, <<"works", "flawlessly">>,
      <<"couldn't", "be", "happier">>, <<"changed", "my", "daily", "routine">>,
      <<"both", "elegant", "and", "practical">>
    >>

hypeWords ==
    <<
      <<"amazing">>, <<"incredible">>, <<"fantastic">>, <<"exceptional">>,
      <<"remarkable">>, <<"outstanding">>, <<"unbeatable">>, <<"flawlessly">>, <<"truly">>,
      <<"absolutely">>, <<"every", "way">>, <<"everyone">>, <<"definitely">>,
      <<"certainly">>
    >>

fakeReviewTemplates ==
    <<
      <<"i", "bought", "this", "for", "my">>, <<"i", "purchased", "this", "for">>,
      <<"my", "husband/wife", "loves">>, <<"exactly", "as", "described">>,
      <<"exactly", "what", "i", "needed">>, <<"highly", "recommend", "this", "product">>,
      <<"five", "stars", "all", "the", "way">>, <<"exceeded", "my", "expectations">>,
      <<"i", "was", "skeptical", "at", "first", "but">>, <<"worth", "every", "penny">>,
      <<"great", "quality", "for", "the", "price">>,
      <<"you", "won't", "be", "disappointed">>, <<"must", "have", "product">>,
      <<"i've", "tried", "many", "similar", "products">>,
      <<"this", "is", "by", "far", "the", "best">>, <<"don't", "hesitate", "to", "buy">>,
      <<"arrived", "quickly", "and", "well", "packaged">>
    >>

RatClamp(score) == RatMax(Rat(0, 1), RatMin(Rat(1, 1), score))

_detectAIPatterns(text) ==
    LET aiCounts == [ i \in DOMAIN aiTellPhrases |-> Occurrences(text.tokens, aiTellPhrases[i]) ]
        aiPhraseCount == SumSeq(aiCounts)
        foundPhrases == { i \in DOMAIN aiTellPhrases : aiCounts[i] > 0 }
        hypeCount == SumSeq([ i \in DOMAIN hypeWords |-> Occurrences(text.tokens, hypeWords[i]) ])
        length == Length(text)
        \* density * 0.25, where density = aiPhraseCount / (text.length / 500)
        aiPenalty == IF aiPhraseCount > 0
                     THEN RatMin(Rat(1, 2), Rat(125 * aiPhraseCount, length))
                     ELSE Rat(0, 1)
        \* hypeDensity > 3 is false for the NaN of an empty text
        hypePenalty == IF length > 0 /\ 500 * hypeCount > 3 * length
                       THEN RatMin(Rat(2, 5),
                                   RatMul(RatSub(Rat(500 * hypeCount, length), Rat(2, 1)),
                                          Rat(1, 10)))
                       ELSE Rat(0, 1)
        score == RatSub(RatSub(Rat(1, 1), aiPenalty), hypePenalty)
    IN  Signal(RatClamp(score),
               IF foundPhrases # {} \/ hypeCount > 3
               THEN <<"Found ", aiPhraseCount, " AI-associated phrases, ", hypeCount,
                      " hype words">>
               ELSE JsNull)

\* the score without the clamp at 0
_detectTemplatesUnclamped(text) ==
    LET matchCount == Cardinality({ i \in DOMAIN fakeReviewTemplates :
                                      Includes(text.tokens, fakeReviewTemplates[i]) })
    IN  Signal(RatSub(Rat(1, 1), Rat(3 * matchCount, 10)),
               IF matchCount > 0
               THEN <<"Matched ", matchCount, " common fake review template phrase">>
               ELSE JsNull)

_detectTemplates(text) ==
    LET matchCount == Cardinality({ i \in DOMAIN fakeReviewTemplates :
                                      Includes(text.tokens, fakeReviewTemplates[i]) })
    IN  Signal(RatMax(Rat(0, 1), RatSub(Rat(1, 1), Rat(3 * matchCount, 10))),
               IF matchCount > 0
               THEN <<"Matched ", matchCount, " common fake review template phrase">>
               ELSE JsNull)

positiveWords ==
    {
      "great", "amazing", "excellent", "perfect", "love", "best", "wonderful", "fantastic",
      "awesome", "incredible", "superb", "outstanding", "brilliant", "magnificent",
      "terrific", "fabulous", "happy", "recommend"
    }

negativeWords ==
    {
      "bad", "terrible", "awful", "worst", "hate", "horrible", "poor", "disappointing",
      "broken", "waste", "junk", "useless", "defective", "cheap", "flimsy", "garbage"
    }

hedgingWords ==
    {
      "but", "however", "although", "though", "except", "unless", "somewhat", "slightly",
      "minor", "small issue", "only complaint", "downside", "only", "wish", "could be",
      "not perfect"
    }

connectives ==
    {
      "because", "since", "so", "which", "where", "when", "after", "before", "while", "then"
    }

vagueWords ==
    {
      "product", "item", "thing", "purchase", "quality", "price", "everything", "everyone",
      "anyone", "nothing", "something", "ever", "always", "never", "every", "very",
      "really", "just", "amazing", "great", "good", "nice", "best", "love", "happy"
    }

\* the words of the lexicon the specificity markers look for: a number at the end
\* of the word, a unit at its start, a number and a unit in one word, a fraction,
\* a price, a relation
EndsInDigits == { "2", "10", "$20", "5/5" }

StartsWithUnit == { "inch", "weeks", "days", "hours", "months", "minutes", "daily" }

DigitsAndUnit == { "10mm" }

Fractions == { "5/5" }

Prices == { "$20" }

Relations == { "wife", "husband", "son", "daughter", "mom", "dad", "friend", "sister",
               "brother", "kids" }

\* how many of the five specificityMarkers match the text
SpecificityScore(tokens) ==
    LET Pair(First(_), Second(_)) ==
            \E i \in 1..(Len(tokens) - 1) :
                First(tokens[i]) /\ tokens[i].p = "" /\ Second(tokens[i + 1])
        IsNumber_(t) == t.w \in EndsInDigits
        IsUnit(t) == t.w \in StartsWithUnit
        IsMy(t) == t.w = "my"
        IsRelation(t) == t.w \in Relations
        IsProper(t) == t.cap /\ Len(t.w) > 1
        IsCapital(t) == t.cap
        measure == Pair(IsNumber_, IsUnit) \/ \E i \in DOMAIN tokens : tokens[i].w \in DigitsAndUnit
        fraction == \E i \in DOMAIN tokens : tokens[i].w \in Fractions
        price == \E i \in DOMAIN tokens : tokens[i].w \in Prices
        properNoun == Pair(IsProper, IsCapital)
        relation == Pair(IsMy, IsRelation)
    IN  Cardinality({ m \in { <<1, measure>>, <<2, fraction>>, <<3, price>>,
                              <<4, properNoun>>, <<5, relation>> } : m[2] })

_analyzeSentiment(text) ==
    LET words == SplitWords(text)
        wordCount == Len(words)
        Count(list) == Cardinality({ i \in DOMAIN words : Clean(words[i]) \in list })
        posCount == Count(positiveWords)
        negCount == Count(negativeWords)
        hedgeCount == Count(hedgingWords)
        specificityScore == SpecificityScore(text.tokens)
        \* posDensity > percent / 100
        PosDensityOver(percent) == 100 * posCount > percent * wordCount
    IN  IF PosDensityOver(6) /\ hedgeCount = 0 /\ negCount = 0 /\ specificityScore = 0
        THEN Signal(Hundredths(15), "Uniformly positive with no nuance or specific details")
        ELSE IF PosDensityOver(8) /\ specificityScore = 0
        THEN Signal(Hundredths(30), "Very high praise density without concrete details")
        ELSE IF PosDensityOver(6) /\ hedgeCount = 0 /\ negCount = 0 /\ specificityScore > 0
        THEN Signal(Hundredths(45), "Positive without hedging but contains specific details")
        ELSE IF hedgeCount > 0 \/ (posCount > 0 /\ negCount > 0)
        THEN Signal(Hundredths(85), JsNull)
        ELSE Signal(Hundredths(60), JsNull)

Terminators == { ".", "!", "?" }

\* text.split(/[.!?]+/): the runs of tokens the terminators end, without them
SplitSentences(tokens) ==
    LET ends == { i \in DOMAIN tokens : tokens[i].p \in Terminators }
        EndOf(k) == CHOOSE i \in ends : Cardinality({ j \in ends : j <= i }) = k
        StartOf(k) == IF k = 1 THEN 1 ELSE EndOf(k - 1) + 1
        Piece(k) ==
            IF k <= Cardinality(ends)
            THEN SubSeq(tokens, StartOf(k), EndOf(k) - 1)
                 \o <<[ tokens[EndOf(k)] EXCEPT !.p = "" ]>>
            ELSE SubSeq(tokens, StartOf(k), Len(tokens))
    IN  [ k \in 1..(Cardinality(ends) + 1) |-> Piece(k) ]

\* _extractNgrams(text, n): the runs of n words, blanks at the ends left out
_extractNgrams(text, n) ==
    [ i \in 1..Max(0, Len(text.tokens) - n + 1) |-> SubSeq(text.tokens, i, i + n - 1) ]

\* the sum of the squares of the distances from the mean, times the square of
\* the count: variance < v exactly when this is below v * Len(numbers)^2
ScaledVariance(numbers) ==
    Len(numbers) * SumSeq([ i \in DOMAIN numbers |-> numbers[i] * numbers[i] ])
      - SumSeq(numbers) * SumSeq(numbers)

_analyzeRepetition(text) ==
    LET sentences == SelectSeq(SplitSentences(text.tokens),
                               LAMBDA s : JoinedLength(s) > 10)
    IN  IF Len(sentences) < 2 THEN Signal(Hundredths(50), JsNull)
        ELSE
        LET trigrams == _extractNgrams(text, 3)
            repeatedTrigrams ==
                Cardinality({ g \in Values(trigrams) : CountOf(trigrams, g, Same) > 2 })
            trigramRepetitionRate == Rat(repeatedTrigrams, Max(1, Len(trigrams)))
            starts == [ i \in DOMAIN sentences |->
                          SubSeq(sentences[i], 1, IF Len(sentences[i]) < 3
                                                  THEN Len(sentences[i]) ELSE 3) ]
            startDiversity == Rat(Cardinality(Values(starts)), Len(starts))
            lengths == [ i \in DOMAIN sentences |-> Len(sentences[i]) ]
            uniform == /\ ScaledVariance(lengths) < 8 * Len(sentences) * Len(sentences)
                       /\ Len(sentences) >= 3
            words == SplitWords(text)
            connectiveCount ==
                Cardinality({ i \in DOMAIN words : Clean(words[i]) \in connectives })
            formulaicScore ==
                RatAdd(IF uniform THEN Rat(3, 10) ELSE Rat(0, 1),
                       IF connectiveCount = 0 /\ Len(sentences) >= 4
                       THEN Rat(2, 10) ELSE Rat(0, 1))
            score ==
                RatSub(RatSub(RatSub(Rat(1, 1),
                                     RatMul(RatSub(Rat(1, 1), startDiversity), Rat(3, 10))),
                              RatMin(Rat(3, 10), RatMul(trigramRepetitionRate, Rat(15, 1)))),
                       formulaicScore)
        IN  Signal(RatClamp(score),
                   IF RatLess(score, Rat(1, 2))
                   THEN <<"Formulaic structure detected: ", repeatedTrigrams,
                          " repeated phrases, low sentence variation">>
                   ELSE JsNull)

_analyzeVocabulary(text) ==
    LET cleaned == [ i \in DOMAIN SplitWords(text) |-> Clean(SplitWords(text)[i]) ]
        words == SelectSeq(cleaned, LAMBDA w : Len(w) > 2)
    IN  IF Len(words) < 20 THEN Signal(Hundredths(50), JsNull)
        ELSE
        LET uniqueWords == Cardinality(Values(words))
            \* typeTokenRatio = uniqueWords / words.length
            typeTokenRatio == Rat(uniqueWords, Len(words))
            vagueCount == Cardinality({ i \in DOMAIN words : words[i] \in vagueWords })
            vagueDensity == Rat(vagueCount, Len(words))
            base == IF RatLess(Hundredths(85), typeTokenRatio) /\ Len(words) > 100
                    THEN Hundredths(50)
                    ELSE IF RatLess(typeTokenRatio, Hundredths(30)) THEN Hundredths(35)
                    ELSE RatAdd(Hundredths(70), RatMul(typeTokenRatio, Rat(2, 10)))
            penalized == IF RatLess(Hundredths(20), vagueDensity)
                         THEN RatSub(base, Hundredths(35))
                         ELSE IF RatLess(Hundredths(15), vagueDensity)
                         THEN RatSub(base, Hundredths(20))
                         ELSE base
            lengths == [ i \in DOMAIN words |-> Len(words[i]) ]
            score == IF ScaledVariance(lengths) < 3 * Len(words) * Len(words)
                     THEN RatMul(penalized, Rat(8, 10))
                     ELSE penalized
        IN  Signal(RatClamp(score),
                   IF RatLess(score, Hundredths(40))
                   THEN <<"Vocabulary lacks specificity (", vagueDensity, " generic words)">>
                   ELSE JsNull)

MinTextLength == 20

\* TextAnalyzer.analyze
TextAnalyzer_analyze(text) ==
    IF IsFalsyText(text) \/ Length(text) < MinTextLength
    THEN [ aiDetection |-> NullSignal, repetitionPattern |-> NullSignal,
           sentimentConsistency |-> NullSignal, vocabularyDistribution |-> NullSignal,
           templateMatching |-> NullSignal ]
    ELSE LET normalized == trim(toLowerCase(text))
         IN  [ aiDetection            |-> _detectAIPatterns(normalized),
               repetitionPattern      |-> _analyzeRepetition(normalized),
               sentimentConsistency   |-> _analyzeSentiment(normalized),
               vocabularyDistribution |-> _analyzeVocabulary(normalized),
               templateMatching       |-> _detectTemplates(normalized) ]

-----------------------------------------------------------------------------
(* BatchTextAnalyzer *)

\* the Set of the 4-grams of one text: the runs of four words of
\* t.toLowerCase().split(/\s+/)
GramsOf(text) ==
    LET words == SplitWords(toLowerCase(text))
    IN  { SubSeq(words, i, i + 3) : i \in 1..(Len(words) - 3) }

\* phraseCounts after the texts from index i on are counted
RECURSIVE CountPhrases(_, _, _)
CountPhrases(textGrams, i, phraseCounts) ==
    IF i > Len(textGrams) THEN phraseCounts
    ELSE CountPhrases(textGrams, i + 1,
                      [ gram \in DOMAIN phraseCounts \cup textGrams[i] |->
                          (IF gram \in DOMAIN phraseCounts THEN phraseCounts[gram] ELSE 0)
                          + (IF gram \in textGrams[i] THEN 1 ELSE 0) ])

\* the phrases with their counts; the order of the list, by count, is left out
_findSharedPhrases(texts) ==
    LET textGrams == [ i \in DOMAIN texts |-> GramsOf(texts[i]) ]
        phraseCounts == CountPhrases(textGrams, 1, << >>)
    IN  { [ phrase |-> gram, count |-> phraseCounts[gram] ] :
            gram \in { g \in DOMAIN phraseCounts : phraseCounts[g] >= 3 } }

\* the score without the clamp at 0
CoordinationScoreUnclamped(sharedPhrases) ==
    RatSub(Rat(1, 1), Rat(15 * Cardinality(sharedPhrases), 100))

\* Math.max(0, 1 - (sharedPhrases.length * 0.15))
CoordinationScore(sharedPhrases) ==
    RatMax(Rat(0, 1), RatSub(Rat(1, 1), Rat(15 * Cardinality(sharedPhrases), 100)))

\* t.toLowerCase() is a TypeError for a text that is null or undefined
_analyzeCrossPatterns(texts) ==
    IF Len(texts) < 3
    THEN Returned([ coordinatedLanguage |-> NullSignal, ratingDistribution |-> NullSignal,
                    timingCluster |-> NullSignal ])
    ELSE IF \E i \in DOMAIN texts : texts[i].kind # "string" THEN Thrown("TypeError")
    ELSE LET sharedPhrases == _findSharedPhrases(texts)
         IN  Returned([ coordinatedLanguage |->
                          [ kind |-> "object", scored |-> TRUE,
                            score |-> CoordinationScore(sharedPhrases),
                            detail |-> IF Cardinality(sharedPhrases) > 3
                                       THEN <<"Found ", Cardinality(sharedPhrases),
                                              " phrases repeated across multiple reviews">>
                                       ELSE JsNull,
                            sharedPhrases |-> sharedPhrases ] ])

BatchTextAnalyzer_analyzeBatch(texts) ==
    LET individual == [ i \in DOMAIN texts |-> TextAnalyzer_analyze(texts[i]) ]
        crossSignals == _analyzeCrossPatterns(texts)
    IN  IF crossSignals.kind = "thrown" THEN crossSignals
        ELSE Returned([ individual |-> individual, batch |-> crossSignals.value ])

-----------------------------------------------------------------------------
(* AmazonAnalyzer._analyzeRatingDistribution.  The histogram is null or an  *)
(* object that maps a number of stars to the percentage of the ratings with *)
(* it.                                                                      *)

Histogram(pct) == [kind |-> "object", pct |-> pct]

\* histogram[stars] || 0
Percent(histogram, stars) ==
    IF stars \in DOMAIN histogram.pct THEN histogram.pct[stars] ELSE 0

_analyzeRatingDistribution(productMeta) ==
    LET histogram == productMeta.histogram
    IN  IF histogram.kind = "null" THEN NullSignal
        ELSE IF Cardinality(DOMAIN histogram.pct) < 3 THEN NullSignal
        ELSE LET fiveStarPct == Percent(histogram, 5)
                 oneStarPct == Percent(histogram, 1)
                 middlePct == Percent(histogram, 2) + Percent(histogram, 3)
                              + Percent(histogram, 4)
             IN  IF fiveStarPct > 90 /\ middlePct < 5
                 THEN Signal(Hundredths(20),
                             <<fiveStarPct, "% five-star reviews with almost no middle ratings">>)
                 ELSE IF fiveStarPct > 80 /\ oneStarPct < 2
                 THEN Signal(Hundredths(40), "Unusually concentrated positive ratings")
                 ELSE IF fiveStarPct > 50 /\ oneStarPct > 25 /\ middlePct < 15
                 THEN Signal(Hundredths(35), "Polarized ratings with few middle reviews")
                 ELSE Signal(Hundredths(80), JsNull)

-----------------------------------------------------------------------------
(* The texts and histograms the detectors are called on *)

\* the most tokens of a text, and the most texts of a batch, enumerated in full
MaxWords == 3

MaxTexts == 4

\* the words, without punctuation
Phrase(words) == [ i \in DOMAIN words |-> W(words[i]) ]

\* the words, the last one followed by a full stop
Sentence(words) ==
    [ i \in DOMAIN words |-> Token(words[i], FALSE, IF i = Len(words) THEN "." ELSE "") ]

\* the tokens n times over
RECURSIVE Times(_, _)
Times(tokens, n) == IF n = 0 THEN << >> ELSE tokens \o Times(tokens, n - 1)

Plain(tokens) == Text(0, tokens, 0)

ShortTokens ==
    { W("great"), Token("product", FALSE, "."), W("tapestry"), W("but"),
      Token("amazing", TRUE, "!") }

\* blanks before and after the tokens
Paddings == { <<0, 0>>, <<0, 12>>, <<3, 0>> }

ShortTexts ==
    { Text(pad[1], tokens, pad[2]) : pad \in Paddings, tokens \in SeqsUpTo(ShortTokens, MaxWords) }

Bought == Sentence(<<"i", "bought", "this", "for", "my", "wife">>)

Described == Sentence(<<"exactly", "as", "described">>)

Recommend == Sentence(<<"highly", "recommend", "this", "product">>)

Penny == Sentence(<<"worth", "every", "penny">>)

Exceeded == Sentence(<<"it", "exceeded", "my", "expectations">>)

Hype == Sentence(<<"truly", "remarkable", "and", "amazing", "in", "every", "way">>)

Flawless == Sentence(<<"it", "works", "flawlessly", "and", "everyone", "is", "happy">>)

Battery ==
    Phrase(<<"the", "battery", "died", "after", "2", "weeks", "but", "my", "wife">>)
    \o Sentence(<<"still", "uses", "the", "old", "charger", "because", "it", "cost", "$20">>)

Refund == Sentence(<<"the", "seller", "sent", "a", "refund", "when", "asked">>)

Vague == Sentence(<<"great", "product", "great", "quality", "great", "price">>)

\* "I love my new Acme Blender so much"
AcmeBlender ==
    <<Token("i", TRUE, ""), W("love"), W("my"), W("new"), Token("acme", TRUE, ""),
      Token("blender", TRUE, ""), W("so"), W("much")>>

LongTexts ==
    { Plain(Bought), Plain(Bought \o Described), Plain(Bought \o Described \o Recommend),
      Plain(Bought \o Described \o Recommend \o Penny),
      Plain(Bought \o Described \o Recommend \o Penny \o Exceeded),
      Plain(Described \o Described \o Described \o Described),
      Plain(Hype), Plain(Hype \o Hype), Plain(Flawless), Plain(Hype \o Flawless \o Vague),
      Plain(Battery), Plain(Battery \o Refund), Plain(Battery \o Refund \o Bought \o Hype),
      Plain(Vague), Plain(Times(Vague, 4)), Plain(Times(Recommend, 6)),
      Plain(Times(Battery, 2) \o Refund), Plain(Times(Battery \o Refund \o Hype, 5)),
      Plain(Times(Phrase(<<"tapestry">>), 30)),
      Plain(Phrase(<<"amazing", "amazing", "amazing", "amazing">>)),
      Plain(Phrase(<<"bad", "but", "great", "5/5", "10mm">>)),
      Plain(AcmeBlender),
      Text(4, Bought, 2), Text(25, << >>, 0), Text(0, << >>, 0),
      Text(0, [ i \in DOMAIN Battery |-> [ Battery[i] EXCEPT !.cap = TRUE ] ], 0),
      JsNull, JsUndefined }

Texts == ShortTexts \cup LongTexts

Value == Phrase(<<"great", "value", "for", "money">>)

BatchTexts ==
    { Plain(Value),
      Plain(Phrase(<<"honestly">>) \o Value),
      Plain(Times(Value, 2)),
      Plain(Battery),
      Text(1, <<Token("great", TRUE, "")>> \o Tail(Value), 0) }

TextBatches ==
    SeqsUpTo(BatchTexts, MaxTexts)
    \cup { Repeat(Plain(Battery \o Refund), 3),
           Repeat(Plain(Battery), 3) \o <<Plain(Value)>>,
           <<Plain(Value), JsNull, Plain(Value)>>,
           <<Plain(Value), JsNull>>,
           Repeat(Text(3, << >>, 0), 3) }

Histograms ==
    { JsNull }
    \cup { Histogram(five @@ one @@ middle) :
             five \in OptionalField(5, {95, 85, 60, 30}),
             one \in OptionalField(1, {0, 1, 30}),
             middle \in { << >> } \cup { (2 :> m) @@ (3 :> m) @@ (4 :> m) : m \in {0, 1, 5} }
                                  \cup { (3 :> m) : m \in {0, 20} } }

AnalyzeText ==
    /\ call.op = "TextAnalyzer.analyze"
    /\ ret = Pending
    /\ ret' = Returned(TextAnalyzer_analyze(call.input))
    /\ UNCHANGED <<scorerVars, bundle, result, first, arg, call, shellVars>>

AnalyzeTextBatch ==
    /\ call.op = "BatchTextAnalyzer.analyzeBatch"
    /\ ret = Pending
    /\ ret' = BatchTextAnalyzer_analyzeBatch(call.input)
    /\ UNCHANGED <<scorerVars, bundle, result, first, arg, call, shellVars>>

AnalyzeRatingDistribution ==
    /\ call.op = "_analyzeRatingDistribution"
    /\ ret = Pending
    /\ ret' = Returned(_analyzeRatingDistribution([ histogram |-> call.input ]))
    /\ UNCHANGED <<scorerVars, bundle, result, first, arg, call, shellVars>>

ScoreBundle ==
    /\ call.op = "computeScore"
    /\ ret = Pending
    /\ ret' = computeScoreOutcome(call.input)
    /\ UNCHANGED <<scorerVars, bundle, result, first, arg, call, shellVars>>

-----------------------------------------------------------------------------

Calls ==
    { [op |-> "computeScore", input |-> b] : b \in AnyBundles }
    \cup { [op |-> "AccountAnalyzer.analyze", input |-> data] : data \in ProfileData }
    \cup { [op |-> "AccountAnalyzer.analyzeBatch", input |-> batch] : batch \in ProfileBatches }
    \cup { [op |-> "TextAnalyzer.analyze", input |-> text] : text \in Texts }
    \cup { [op |-> "BatchTextAnalyzer.analyzeBatch", input |-> batch] : batch \in TextBatches }
    \cup { [op |-> "_analyzeRatingDistribution", input |-> histogram] : histogram \in Histograms }

CallInit ==
    /\ Construct(<< >>)
    /\ call \in Calls
    /\ ret = Pending
    /\ EngineOnly

CallNext ==
    \/ ScoreBundle
    \/ AnalyzeAccount
    \/ AnalyzeAccountBatch
    \/ AnalyzeText
    \/ AnalyzeTextBatch
    \/ AnalyzeRatingDistribution

CallSpec == CallInit /\ [][CallNext]_vars

-----------------------------------------------------------------------------
(* C11.  computeScore returns a TrustResult, and never throws, for every    *)
(* bundle whose groups are mappings: the empty bundle, unknown categories,  *)
(* empty groups, and signals that are null, bare numbers or objects with a  *)
(* null score.  The worst outcome is INSUFFICIENT_DATA; the empty bundle    *)
(* gives it with a null score and confidence 0.                             *)

\* every group of the bundle is a mapping from signal names
GroupsAreMappings(b) == \A c \in DOMAIN b : b[c] # JsNull

C11_ComputeScoreNeverFails ==
    (call.op = "computeScore" /\ Done /\ GroupsAreMappings(call.input)) =>
        /\ ret.kind = "returned"
        /\ ret.value.level \in TrustLevels \cup {"INSUFFICIENT_DATA"}
        /\ ret.value.signalCount >= 0
        /\ call.input = EmptyBundle =>
              /\ ret.value.level = "INSUFFICIENT_DATA"
              /\ ret.value.score = JsNull
              /\ ret.value.confidence = Rat(0, 1)

\* an unknown category, an empty group, a null signal and an object with a null
\* score in one bundle: scored, and not insufficient
C11_Witness ==
    /\ call.op = "computeScore"
    /\ Done
    /\ ret.kind = "returned"
    /\ ret.value.level = "VERY_LOW_TRUST"
    /\ \E c \in DOMAIN call.input : c \notin DOMAIN weights
    /\ \E c \in DOMAIN call.input : \E n \in DOMAIN call.input[c] :
          call.input[c][n] \in {NullSignal, ObjNullScore}

-----------------------------------------------------------------------------
(* C12.  Every detector is total: TextAnalyzer.analyze,                     *)
(* BatchTextAnalyzer.analyzeBatch, AccountAnalyzer.analyze and              *)
(* AccountAnalyzer.analyzeBatch return a result, and never throw, for every *)
(* text and every ReviewerProfile, the profiles whose date fields are       *)
(* missing or do not parse as dates included.  The code throws a RangeError *)
(* for a profile with two or more reviewDates of which one does not parse.  *)

Detectors ==
    { "TextAnalyzer.analyze", "BatchTextAnalyzer.analyzeBatch",
      "AccountAnalyzer.analyze", "AccountAnalyzer.analyzeBatch" }

\* the texts of the call are strings
TextsAreStrings ==
    /\ call.op = "TextAnalyzer.analyze" => call.input.kind = "string"
    /\ call.op = "BatchTextAnalyzer.analyzeBatch" =>
          \A i \in DOMAIN call.input : call.input[i].kind = "string"

C12_DetectorsNeverThrow ==
    (call.op \in Detectors /\ Done /\ TextsAreStrings) => ret.kind = "returned"

-----------------------------------------------------------------------------
(* C13.  Every signal a detector produces (the five text signals, the five  *)
(* account signals, timingCluster, accountAgeCluster, coordinatedLanguage   *)
(* and the rating-distribution signal) is null or has a score in the closed *)
(* interval [0,1], for all inputs.                                          *)

InUnitInterval(score) == RatLeq(Rat(0, 1), score) /\ RatLeq(score, Rat(1, 1))

NullOrInUnitInterval(signal) == signal.kind = "null" \/ InUnitInterval(signal.score)

\* every signal of a record of signals
AllSignals(signals, Holds(_)) == \A name \in DOMAIN signals : Holds(signals[name])

\* every signal of the result of a batch call: those of each item and those of
\* the batch
AllBatchSignals(value, Holds(_)) ==
    /\ \A i \in DOMAIN value.individual : AllSignals(value.individual[i], Holds)
    /\ AllSignals(value.batch, Holds)

\* every signal of the value the call returned
AllReturnedSignals(Holds(_)) ==
    CASE call.op \in {"AccountAnalyzer.analyze", "TextAnalyzer.analyze"} ->
           AllSignals(ret.value, Holds)
      [] call.op \in {"AccountAnalyzer.analyzeBatch", "BatchTextAnalyzer.analyzeBatch"} ->
           AllBatchSignals(ret.value, Holds)
      [] call.op = "_analyzeRatingDistribution" -> Holds(ret.value)
      [] OTHER -> TRUE

C13_SignalsNullOrInUnitInterval ==
    (Done /\ ret.kind = "returned") => AllReturnedSignals(NullOrInUnitInterval)

\* the clamp acts: a batch of texts sharing more than six shingles scores 0
C13_Witness ==
    /\ Done
    /\ ret.kind = "returned"
    /\ call.op = "BatchTextAnalyzer.analyzeBatch"
    /\ ret.value.batch.coordinatedLanguage.kind = "object"
    /\ Cardinality(ret.value.batch.coordinatedLanguage.sharedPhrases) > 6
    /\ ret.value.batch.coordinatedLanguage.score = Rat(0, 1)

-----------------------------------------------------------------------------
(* C14.  TextAnalyzer.analyze returns its five signals as null whenever the *)
(* text is shorter than 20 characters, the length being that of the         *)
(* normalized (lower-cased, trimmed) text the detectors work on, and all    *)
(* five non-null for a text of at least 20 characters.  The code measures   *)
(* the text as given, blanks at its ends included.                          *)

IsNull(signal) == signal.kind = "null"

IsNotNull(signal) == signal.kind # "null"

C14_NullBelowTwentyNormalized ==
    (call.op = "TextAnalyzer.analyze" /\ Done /\ call.input.kind = "string") =>
        LET normalized == trim(toLowerCase(call.input))
        IN  /\ ret.kind = "returned"
            /\ Length(normalized) < MinTextLength => AllSignals(ret.value, IsNull)
            /\ Length(normalized) >= MinTextLength => AllSignals(ret.value, IsNotNull)

-----------------------------------------------------------------------------
(* C15.  The template-matching score is max(0, 1 - 0.3 x matchCount), where *)
(* matchCount is the number of template phrases of the fixed list found in  *)
(* the text: 1, 0.7, 0.4 and 0.1 for none to three phrases, and exactly 0,  *)
(* never a negative number, for four or more.                               *)

\* the template phrases found in the normalized text of the call
TemplatesFound ==
    LET normalized == trim(toLowerCase(call.input))
    IN  { i \in DOMAIN fakeReviewTemplates :
            \E at \in DOMAIN normalized.tokens :
                PhraseAt(normalized.tokens, fakeReviewTemplates[i], at) }

TemplateScoreFor(matchCount) ==
    IF matchCount >= 4 THEN Rat(0, 1) ELSE Rat(10 - 3 * matchCount, 10)

\* the call analysed a text: a string of at least 20 characters as given
TextAnalysed ==
    /\ call.op = "TextAnalyzer.analyze"
    /\ Done
    /\ call.input.kind = "string"
    /\ Length(call.input) >= MinTextLength

C15_TemplateScore ==
    TextAnalysed =>
        /\ ret.value.templateMatching.score = TemplateScoreFor(Cardinality(TemplatesFound))
        /\ RatLeq(Rat(0, 1), ret.value.templateMatching.score)

\* a text with five template phrases scores 0
C15_Witness ==
    /\ TextAnalysed
    /\ Cardinality(TemplatesFound) = 5
    /\ ret.value.templateMatching.score = Rat(0, 1)

-----------------------------------------------------------------------------
(* C16.  A batch detector given fewer items than it requires returns a null *)
(* signal, never a score and never an exception: every cross-batch signal   *)
(* of the texts is null for fewer than 3 texts, timingCluster is null for   *)
(* fewer than 5 profiles with a review date, and accountAgeCluster is null  *)
(* for fewer than 3 profiles with a known creation date.  With at least     *)
(* that many items the signal is not null.                                  *)

\* the profiles of the call that have the field
ProfilesWith(field) ==
    { i \in DOMAIN call.input : Truthy(ReviewerProfile(call.input[i])[field]) }

\* the two batch detectors of the accounts, on the profiles of the call
TimingClusterSignals ==
    _detectTimingClusters([ i \in DOMAIN call.input |-> ReviewerProfile(call.input[i]) ])

AccountAgeClusterSignals ==
    _detectAccountAgeCluster([ i \in DOMAIN call.input |-> ReviewerProfile(call.input[i]) ])

C16_BatchDetectorsNeedEnoughItems ==
    /\ (call.op = "BatchTextAnalyzer.analyzeBatch" /\ Done /\ Len(call.input) < 3) =>
          /\ ret.kind = "returned"
          /\ AllSignals(ret.value.batch, IsNull)
    /\ (call.op = "BatchTextAnalyzer.analyzeBatch" /\ Done /\ Len(call.input) >= 3
          /\ TextsAreStrings) =>
          /\ ret.kind = "returned"
          /\ IsNotNull(ret.value.batch.coordinatedLanguage)
    /\ (call.op = "AccountAnalyzer.analyzeBatch" /\ Done) =>
          /\ Cardinality(ProfilesWith("reviewDate")) < 5 =>
                TimingClusterSignals = {NullSignal}
          /\ Cardinality(ProfilesWith("reviewDate")) >= 5 =>
                NullSignal \notin TimingClusterSignals
          /\ Cardinality(ProfilesWith("accountCreated")) < 3 =>
                AccountAgeClusterSignals = {NullSignal}
          /\ Cardinality(ProfilesWith("accountCreated")) >= 3 =>
                NullSignal \notin AccountAgeClusterSignals
          /\ ret.kind = "returned" =>
                /\ ret.value.batch.timingCluster \in TimingClusterSignals
                /\ ret.value.batch.accountAgeCluster \in AccountAgeClusterSignals

\* four profiles with a review date and a creation date in a batch of five: no
\* timing signal, and an account-age signal
C16_Witness ==
    /\ call.op = "AccountAnalyzer.analyzeBatch"
    /\ Done
    /\ ret.kind = "returned"
    /\ Len(call.input) = 5
    /\ Cardinality(ProfilesWith("reviewDate")) = 4
    /\ Cardinality(ProfilesWith("accountCreated")) = 4
    /\ IsNull(ret.value.batch.timingCluster)
    /\ IsNotNull(ret.value.batch.accountAgeCluster)

-----------------------------------------------------------------------------
(* C17.  For a batch of 3 or more texts, coordinatedLanguage.score is       *)
(* max(0, 1 - 0.15 x sharedPhraseCount), where sharedPhraseCount is the     *)
(* number of distinct 4-word shingles that occur in at least 3 different    *)
(* texts, a shingle repeated inside one text counting once for that text.   *)
(* The code also takes the empty string before a leading blank, or after a  *)
(* trailing one, for a word of the text.                                    *)

\* the runs of four words of the text, in lower case
WordShingles(text) ==
    LET words == toLowerCase(text).tokens
    IN  { SubSeq(words, i, i + 3) : i \in 1..(Len(words) - 3) }

\* the shingles that occur in at least 3 different texts of the call
SharedShingles ==
    { shingle \in UNION { WordShingles(call.input[i]) : i \in DOMAIN call.input } :
        Cardinality({ i \in DOMAIN call.input : shingle \in WordShingles(call.input[i]) }) >= 3 }

CoordinationScoreFor(sharedPhraseCount) ==
    IF sharedPhraseCount >= 7 THEN Rat(0, 1) ELSE Rat(100 - 15 * sharedPhraseCount, 100)

C17_CoordinatedLanguageScore ==
    (call.op = "BatchTextAnalyzer.analyzeBatch" /\ Done /\ Len(call.input) >= 3
       /\ TextsAreStrings) =>
        /\ ret.kind = "returned"
        /\ ret.value.batch.coordinatedLanguage.score
             = CoordinationScoreFor(Cardinality(SharedShingles))

-----------------------------------------------------------------------------
(* C18.  The account-age signal is null exactly when neither accountCreated *)
(* nor firstReviewDate is known.  Otherwise the age is measured from        *)
(* accountCreated when it is known and from firstReviewDate only when it is *)
(* not, and the score is 0.1 for an age under 7 days, 0.3 under 30, 0.6     *)
(* under 90 and 0.9 otherwise, so it never decreases with the age.          *)

\* the field of the call's data is a date
KnownDate(field) == field \in DOMAIN call.input /\ call.input[field].kind = "date"

\* the field of the call's data is absent, null or empty
Unknown(field) == ~Truthy(Field(call.input, field))

\* the age in hours measured from the field
AgeFrom(field) == Now - call.input[field].t

AccountAgeScoreFor(age) ==
    IF age < 7 * HoursPerDay THEN Hundredths(10)
    ELSE IF age < 30 * HoursPerDay THEN Hundredths(30)
    ELSE IF age < 90 * HoursPerDay THEN Hundredths(60)
    ELSE Hundredths(90)

\* the call scored a profile whose two date fields are unknown or dates
AccountAgeScored ==
    /\ call.op = "AccountAnalyzer.analyze"
    /\ Done
    /\ ret.kind = "returned"
    /\ \A field \in {"accountCreated", "firstReviewDate"} : Unknown(field) \/ KnownDate(field)

C18_AccountAge ==
    AccountAgeScored =>
        /\ IsNull(ret.value.accountAge)
             <=> (Unknown("accountCreated") /\ Unknown("firstReviewDate"))
        /\ KnownDate("accountCreated") =>
             ret.value.accountAge.score = AccountAgeScoreFor(AgeFrom("accountCreated"))
        /\ (Unknown("accountCreated") /\ KnownDate("firstReviewDate")) =>
             ret.value.accountAge.score = AccountAgeScoreFor(AgeFrom("firstReviewDate"))
        /\ \A younger, older \in AgeDays :
             younger <= older =>
                RatLeq(AccountAgeScoreFor(younger * HoursPerDay),
                       AccountAgeScoreFor(older * HoursPerDay))

\* an account made 3 days ago with a first review dated 200 days ago scores 0.1
C18_Witness ==
    /\ AccountAgeScored
    /\ KnownDate("accountCreated")
    /\ KnownDate("firstReviewDate")
    /\ AgeFrom("accountCreated") = 3 * HoursPerDay
    /\ AgeFrom("firstReviewDate") = 200 * HoursPerDay
    /\ ret.value.accountAge.score = Hundredths(10)

-----------------------------------------------------------------------------
(* C19.  Absent profile data is never penalized: for a ReviewerProfile in   *)
(* which every field is absent, every signal AccountAnalyzer.analyze        *)
(* returns is null, so the profile adds nothing to the signal count, the    *)
(* account score or the issues of computeScore.  The code scores the        *)
(* profile completeness of such a profile 0.3.                              *)

C19_AbsentProfileAllNull ==
    (call.op = "AccountAnalyzer.analyze" /\ Done /\ DOMAIN call.input = {}) =>
        /\ ret.kind = "returned"
        /\ AllSignals(ret.value, IsNull)

-----------------------------------------------------------------------------
(* C20.  The helpful-vote signal, networkConnections, needs both            *)
(* helpfulVotes and totalReviews: it is null for every profile in which     *)
(* either is unknown; when both are known it is 0.4 if the ratio of votes   *)
(* to reviews is below 0.1 with more than 20 reviews, 0.9 if the ratio is   *)
(* above 1, and null otherwise.  The code scores a profile of more than 20  *)
(* reviews whose helpfulVotes are unknown 0.4.                              *)

\* the number the call's data gives for the field
Known(field) == field \in DOMAIN call.input /\ call.input[field].kind = "number"

NetworkSignalFor(helpfulVotes, totalReviews) ==
    IF 10 * helpfulVotes < totalReviews /\ totalReviews > 20
    THEN Signal(Hundredths(40), "Very low helpful vote ratio despite many reviews")
    ELSE IF helpfulVotes > totalReviews THEN Signal(Hundredths(90), JsNull)
    ELSE NullSignal

C20_NetworkNeedsVotesAndReviews ==
    (call.op = "AccountAnalyzer.analyze" /\ Done /\ ret.kind = "returned") =>
        /\ (~Known("helpfulVotes") \/ ~Known("totalReviews")) =>
              IsNull(ret.value.networkConnections)
        /\ (Known("helpfulVotes") /\ Known("totalReviews") /\ call.input.totalReviews.n > 0) =>
              ret.value.networkConnections
                = NetworkSignalFor(call.input.helpfulVotes.n, call.input.totalReviews.n)

-----------------------------------------------------------------------------
(* C21.  For a batch with at least 5 dated reviews the timing-cluster       *)
(* detector groups each run of consecutive timestamps less than 24 hours    *)
(* apart and keeps the runs of 3 or more; the score is 0.8 when no run      *)
(* qualifies, 0.15 when the largest holds more than half of the dated       *)
(* reviews and max(0.3, 1 - largest/total) otherwise, so the score never    *)
(* increases when the largest cluster's share grows.  The code scores 3     *)
(* clustered reviews of 16 above 16 reviews with no cluster.                *)

\* the review times of a batch of data, sorted, when all of them are dates
ReviewTimes(batch) ==
    SortSeq(TimesOf([ i \in DOMAIN batch |-> ReviewerProfile(batch[i]) ], "reviewDate"),
            LAMBDA a, b : a.t < b.t)

AllReviewDatesValid(batch) ==
    \A i \in DOMAIN batch :
        "reviewDate" \in DOMAIN batch[i] => batch[i].reviewDate.kind \in {"date", "null"}

\* the timestamps from i to j follow each other less than 24 hours apart
IsRun(times, i, j) == \A k \in i..(j - 1) : times[k + 1].t - times[k].t < HoursPerDay

\* the length of the longest run of the sorted timestamps
LargestRun(times) ==
    MaxOf({ n \in 1..Len(times) :
              \E i \in DOMAIN times : i + n - 1 <= Len(times) /\ IsRun(times, i, i + n - 1) })

TimingScoreFor(largest, total) ==
    IF largest < 3 THEN Hundredths(80)
    ELSE IF 2 * largest > total THEN Hundredths(15)
    ELSE RatMax(Hundredths(30), RatSub(Rat(1, 1), Rat(largest, total)))

\* the score of the batch, had it been the one of the call
TimingScoreOf(batch) ==
    TimingClusterOf(ReviewTimes(batch)).score

\* the call scored the timing of at least 5 reviews with valid dates
TimingScored ==
    /\ call.op = "AccountAnalyzer.analyzeBatch"
    /\ Done
    /\ ret.kind = "returned"
    /\ AllReviewDatesValid(call.input)
    /\ Len(ReviewTimes(call.input)) >= 5

C21_TimingClusterScore ==
    TimingScored =>
        LET times == ReviewTimes(call.input)
        IN  /\ ret.value.batch.timingCluster.score
                 = TimingScoreFor(LargestRun(times), Len(times))
            /\ \A other \in TimingBatches :
                  (/\ Len(ReviewTimes(other)) = Len(times)
                   /\ LargestRun(ReviewTimes(other)) <= LargestRun(times)) =>
                      RatLeq(ret.value.batch.timingCluster.score, TimingScoreOf(other))

-----------------------------------------------------------------------------
(* C25.  Every cluster the timing-cluster detector keeps consists of        *)
(* reviews posted within 24 hours of each other: the time between its       *)
(* earliest and its latest review is less than 24 hours, so the N of the    *)
(* detail 'N of M reviews posted within 24 hours of each other' counts      *)
(* reviews inside one 24-hour window.  The code chains reviews that are     *)
(* each less than 24 hours after the one before.                            *)

\* the runs the detector keeps: the longest runs of 3 or more timestamps
KeptClusters(times) ==
    { run \in (DOMAIN times) \X (DOMAIN times) :
        /\ run[2] - run[1] + 1 >= 3
        /\ IsRun(times, run[1], run[2])
        /\ run[1] > 1 => ~IsRun(times, run[1] - 1, run[1])
        /\ run[2] < Len(times) => ~IsRun(times, run[2], run[2] + 1) }

\* some window of less than 24 hours holds that many of the timestamps
WindowHolds(times, count) ==
    \E i \in DOMAIN times :
        /\ i + count - 1 <= Len(times)
        /\ times[i + count - 1].t - times[i].t < HoursPerDay

C25_ClustersWithinOneDay ==
    TimingScored =>
        LET times == ReviewTimes(call.input)
            signal == ret.value.batch.timingCluster
        IN  /\ \A run \in KeptClusters(times) :
                  times[run[2]].t - times[run[1]].t < HoursPerDay
            /\ signal.score = Hundredths(15) => WindowHolds(times, signal.detail[1])

-----------------------------------------------------------------------------
(* C22.  The sentiment-consistency score is one of 0.15, 0.30, 0.45, 0.85   *)
(* and 0.60, decided by the first matching row of the table over positive   *)
(* density, hedge count, negative count and specificity count; the          *)
(* specificity count is positive whenever the review contains a numeric     *)
(* measurement, a fraction, a price, a proper-noun pattern or a             *)
(* family-member mention, so a uniformly positive review with such a detail *)
(* scores 0.45 rather than 0.15.  The code looks for the proper-noun        *)
(* pattern in the lower-cased text, where it never matches.                 *)

SentimentScores ==
    { Hundredths(15), Hundredths(30), Hundredths(45), Hundredths(85), Hundredths(60) }

\* the specificity markers the review of the call contains, as it was written
ReviewSpecificity == SpecificityScore(call.input.tokens)

\* how many words of the normalized text of the call clean to a word of the list
CountIn(list) ==
    LET words == SplitWords(trim(toLowerCase(call.input)))
    IN  Cardinality({ i \in DOMAIN words : Clean(words[i]) \in list })

\* positive density above 0.06 with no hedging and no negative word
UniformlyPositive ==
    /\ 100 * CountIn(positiveWords) > 6 * Len(SplitWords(trim(toLowerCase(call.input))))
    /\ CountIn(hedgingWords) = 0
    /\ CountIn(negativeWords) = 0

C22_SentimentDecisionTable ==
    TextAnalysed =>
        /\ ret.value.sentimentConsistency.score \in SentimentScores
        /\ (UniformlyPositive /\ ReviewSpecificity > 0) =>
              ret.value.sentimentConsistency.score = Hundredths(45)
        /\ (UniformlyPositive /\ ReviewSpecificity = 0) =>
              ret.value.sentimentConsistency.score = Hundredths(15)

-----------------------------------------------------------------------------
(* C23.  No single signal can condemn content: for every bundle with at     *)
(* least minSignalsRequired non-null signals of which at most one scores    *)
(* below 0.75, computeScore does not return VERY_LOW_TRUST, whatever the    *)
(* value of that one signal and whichever categories the signals are in.    *)
(* The code returns VERY_LOW_TRUST for one text signal at 0 beside two      *)
(* media signals at 0.75.                                                   *)

\* the non-null signals of the bundle of the call, as <<category, name>>
ScoredSignals ==
    { slot \in UNION { {c} \X DOMAIN call.input[c] : c \in DOMAIN call.input } :
        slot[2] \in NonNullSignals(call.input[slot[1]]) }

\* those of them that score below the HIGH_TRUST threshold
BelowHighTrust ==
    { slot \in ScoredSignals : call.input[slot[1]][slot[2]].score < thresholds.HIGH_TRUST }

C23_NoSingleSignalCondemns ==
    (/\ call.op = "computeScore"
     /\ Done
     /\ GroupsAreMappings(call.input)
     /\ Cardinality(ScoredSignals) >= config.minSignalsRequired
     /\ Cardinality(BelowHighTrust) <= 1) =>
        /\ ret.kind = "returned"
        /\ ret.value.level # "VERY_LOW_TRUST"

-----------------------------------------------------------------------------
(* StorageManager: the result cache.  Time is in hours.  chrome.storage     *)
(* serves one request at a time; an async method is suspended at each       *)
(* await, and the steps of other calls can come in between.                 *)

CACHE_TTL == 24

CACHE_MAX_AGE == 7 * 24

\* the clock advances in steps of this many hours
ClockStep == CACHE_TTL \div 2

\* the clock stops here
MaxHours == 192

\* the keys results are cached under
Asins == { "B0001" }

\* the results run() caches at a time: overall, reviewCount, timestamp
ResultsAt(now) ==
    { [ overall |-> "HIGH_TRUST", reviewCount |-> count, timestamp |-> now ] : count \in {3, 8} }

NoEntry == [kind |-> "undefined"]

NotCalled == [kind |-> "not called"]

NoReturn == [kind |-> "no return"]

\* { ...result, cachedAt: Date.now() }
CacheEntry(r, now) ==
    [ field \in DOMAIN r \cup {"cachedAt"} |-> IF field = "cachedAt" THEN now ELSE r[field] ]

IsStaleAfterMaxAge(entry, now) == now - entry.cachedAt > CACHE_MAX_AGE

\* Date.now() - cached.cachedAt > this.CACHE_TTL
IsStale(entry, now) == now - entry.cachedAt > CACHE_TTL

\* Date.now() - value.cachedAt > this.CACHE_MAX_AGE
IsOld(entry, now) == now - entry.cachedAt > CACHE_MAX_AGE

\* a call of the cache is suspended at an await
CacheCallPending == cache.get # NotCalled \/ cache.cleanup # NotCalled

\* cacheResult(key, result): one chrome.storage.local.set
CacheResult(key, r) ==
    /\ cache.kind = "cache"
    /\ cache' = [ cache EXCEPT !.store[key] = CacheEntry(r, cache.now),
                               !.written[key] = [ kind |-> "written", result |-> r, at |-> cache.now ],
                               !.overlapped = cache.overlapped \/ CacheCallPending,
                               !.ret = NoReturn ]
    /\ UNCHANGED <<scorerVars, bundle, result, first, arg, call, ret, usage, page, deep>>

\* getCachedResult(key) up to the await of chrome.storage.local.get
GetCachedResultReads(key) ==
    /\ cache.kind = "cache"
    /\ cache.get = NotCalled
    /\ cache' = [ cache EXCEPT !.get = [ kind |-> "read", key |-> key, cached |-> cache.store[key] ],
                               !.overlapped = cache.overlapped \/ CacheCallPending,
                               !.ret = NoReturn ]
    /\ UNCHANGED <<scorerVars, bundle, result, first, arg, call, ret, usage, page, deep>>

\* getCachedResult(key) from the await on: null for no entry, remove and null
\* for a stale entry, the entry otherwise
GetCachedResultReturns ==
    /\ cache.kind = "cache"
    /\ cache.get # NotCalled
    /\ LET key == cache.get.key
           cached == cache.get.cached
           value == IF cached = NoEntry \/ IsStale(cached, cache.now) THEN JsNull ELSE cached
       IN cache' = [ cache EXCEPT !.store[key] = IF cached # NoEntry /\ IsStale(cached, cache.now)
                                                 THEN NoEntry
                                                 ELSE cache.store[key],
                                  !.get = NotCalled,
                                  !.ret = [ kind |-> "returned", key |-> key, value |-> value,
                                            cached |-> cached ] ]
    /\ UNCHANGED <<scorerVars, bundle, result, first, arg, call, ret, usage, page, deep>>

\* cleanupOldCache() up to the await of chrome.storage.local.get(null)
CleanupOldCacheReads ==
    /\ cache.kind = "cache"
    /\ cache.cleanup = NotCalled
    /\ cache' = [ cache EXCEPT !.cleanup = [ kind |-> "read", allData |-> cache.store ],
                               !.overlapped = cache.overlapped \/ CacheCallPending,
                               !.ret = NoReturn ]
    /\ UNCHANGED <<scorerVars, bundle, result, first, arg, call, ret, usage, page, deep>>

\* cleanupOldCache() from the await on: the keys whose entry in the data read
\* is older than CACHE_MAX_AGE are removed
CleanupOldCacheRemoves ==
    /\ cache.kind = "cache"
    /\ cache.cleanup # NotCalled
    /\ LET allData == cache.cleanup.allData
           keysToRemove == { key \in DOMAIN allData :
                               allData[key] # NoEntry /\ IsOld(allData[key], cache.now) }
       IN cache' = [ cache EXCEPT !.store = [ key \in DOMAIN cache.store |->
                                                IF key \in keysToRemove THEN NoEntry
                                                ELSE cache.store[key] ],
                                  !.cleanup = NotCalled,
                                  !.ret = NoReturn ]
    /\ UNCHANGED <<scorerVars, bundle, result, first, arg, call, ret, usage, page, deep>>

\* time passes
ClockAdvances ==
    /\ cache.kind = "cache"
    /\ cache.now + ClockStep <= MaxHours
    /\ cache' = [ cache EXCEPT !.now = cache.now + ClockStep, !.ret = NoReturn ]
    /\ UNCHANGED <<scorerVars, bundle, result, first, arg, call, ret, usage, page, deep>>

CacheInit ==
    /\ Construct(<< >>)
    /\ call = NoSingleCall
    /\ ret = Pending
    /\ cache = [ kind |-> "cache",
                 now |-> 0,
                 store |-> [ key \in Asins |-> NoEntry ],
                 written |-> [ key \in Asins |-> NotCalled ],
                 get |-> NotCalled,
                 cleanup |-> NotCalled,
                 overlapped |-> FALSE,
                 ret |-> NoReturn ]
    /\ usage = NotRunning
    /\ page = NotRunning
    /\ deep = NotRunning

CacheNext ==
    \/ \E key \in Asins : \E r \in ResultsAt(cache.now) : CacheResult(key, r)
    \/ \E key \in Asins : GetCachedResultReads(key)
    \/ GetCachedResultReturns
    \/ CleanupOldCacheReads
    \/ CleanupOldCacheRemoves
    \/ ClockAdvances

CacheSpec == CacheInit /\ [][CacheNext]_vars

-----------------------------------------------------------------------------
(* C24.  getCachedResult(key) never returns an entry whose cachedAt is more *)
(* than CACHE_TTL (24 hours) in the past: an entry read that old is removed *)
(* from storage and null is returned.  When the calls are made one after    *)
(* the other, an entry written by cacheResult(key, r) less than 24 hours    *)
(* ago and not overwritten since is returned with the fields of r, whatever *)
(* cacheResult, getCachedResult and cleanupOldCache calls came before.      *)

\* getCachedResult has just returned
GetReturned == cache.kind = "cache" /\ cache.ret.kind = "returned"

\* the last cacheResult call for the key of the call that returned
LastWritten == cache.written[cache.ret.key]

C24_CacheFreshness ==
    GetReturned =>
        /\ cache.ret.value # JsNull => cache.now - cache.ret.value.cachedAt <= CACHE_TTL
        /\ (cache.ret.cached # NoEntry /\ cache.now - cache.ret.cached.cachedAt > CACHE_TTL) =>
              /\ cache.ret.value = JsNull
              /\ cache.store[cache.ret.key] = NoEntry
        /\ (~cache.overlapped /\ LastWritten # NotCalled /\ cache.now - LastWritten.at < CACHE_TTL) =>
              /\ cache.ret.value # JsNull
              /\ cache.ret.value.cachedAt = LastWritten.at
              /\ \A field \in DOMAIN LastWritten.result :
                    cache.ret.value[field] = LastWritten.result[field]

\* an entry read 36 hours after it was written is removed and null is returned
C24_Witness ==
    /\ GetReturned
    /\ ~cache.overlapped
    /\ cache.ret.cached # NoEntry
    /\ cache.now - cache.ret.cached.cachedAt = CACHE_TTL + ClockStep
    /\ cache.ret.value = JsNull
    /\ cache.store[cache.ret.key] = NoEntry

-----------------------------------------------------------------------------
(* The Amazon content script.  The script runs on one thread: a handler     *)
(* runs to its end or to its next await before another starts.  run() has   *)
(* one await, on the cache write; _analyzeNewReviews has none.  The page    *)
(* adds review cards at any time.                                           *)

\* the review cards the page can show
MaxCards == 3

Cards == 1 .. MaxCards

\* a card whose title and body are empty is skipped by the extraction
HasText(card) == card % 3 # 0

\* the pagination clicks whose timers are pending at one time
MaxClicks == 2

\* the analysis of the extracted reviews returns or throws
Outcomes == { "returns", "throws" }

WithText(cards) == { card \in cards : HasText(card) }

NeverBlocked(p) == FALSE

\* if (this.isRunning) return
Blocked(p) == p.isRunning

\* this.renderer.renderReviewBadge for each scored review: the analysis of the
\* card is counted, the card has a badge, and the observer that watches the
\* review list is told of the change
Render(p, reviews) ==
    [ p EXCEPT !.analysed = [ card \in Cards |-> IF card \in reviews
                                                 THEN p.analysed[card] + 1
                                                 ELSE p.analysed[card] ],
               !.badged = p.badged \cup reviews,
               !.newRecords = p.newRecords \/ (p.newObserver /\ reviews # {}) ]

\* run() up to its await or its return
run(p, outcome) ==
    IF Blocked(p) THEN p
    ELSE LET reviews == WithText(p.cards)
         IN  IF reviews = {}
             THEN [ p EXCEPT !.isRunning = FALSE, !.run = "returned" ]
             ELSE IF outcome = "throws"
             THEN [ p EXCEPT !.isRunning = FALSE, !.run = "returned", !.threw = TRUE ]
             ELSE IF p.asin
             THEN [ Render(p, reviews) EXCEPT !.isRunning = TRUE,
                                              !.run = "awaiting cacheResult" ]
             ELSE [ Render(p, reviews) EXCEPT !.isRunning = FALSE, !.run = "returned" ]

\* _observeForNewReviews(): the cards on the page are marked as analysed, the
\* persistent observer and the click listener are installed
_observeForNewReviews(p) ==
    [ p EXCEPT !.analyzedReviews = p.analyzedReviews \cup p.cards,
               !.newObserver = TRUE ]

\* _analyzeNewReviews()
_analyzeNewReviews(p, outcome) ==
    IF Blocked(p) THEN p
    ELSE LET newElements == p.cards \ p.analyzedReviews
             marked == [ p EXCEPT !.analyzedReviews = p.analyzedReviews \cup newElements ]
             started == [ marked EXCEPT !.overlapped = p.overlapped
                                                       \/ p.run = "awaiting cacheResult" ]
             reviews == WithText(newElements)
         IN  IF newElements = {} THEN marked
             ELSE IF reviews = {} THEN [ started EXCEPT !.isRunning = FALSE ]
             ELSE IF outcome = "throws"
             THEN [ started EXCEPT !.isRunning = FALSE, !.threw = TRUE ]
             ELSE [ Render(started, reviews) EXCEPT !.isRunning = FALSE ]

\* the observers' callbacks are microtasks: a timer, a settled promise or a
\* change of the page comes only after the records queued were delivered
Delivered == ~page.firstRecords /\ ~page.newRecords

\* init(): with no review list and no card it watches for them; otherwise it
\* calls run() and then _observeForNewReviews(), after run()'s await if run()
\* is suspended
ScriptStarts(outcome) ==
    /\ page.kind = "page"
    /\ page.init = "not started"
    /\ page' = IF ~page.reviewList /\ page.cards = {}
               THEN [ page EXCEPT !.init = "returned",
                                  !.firstObserver = "observing",
                                  !.safetyTimer = TRUE ]
               ELSE LET ran == run(page, outcome)
                    IN  IF ran.run = "awaiting cacheResult"
                        THEN [ ran EXCEPT !.init = "awaiting run" ]
                        ELSE [ _observeForNewReviews(ran) EXCEPT !.init = "returned" ]
    /\ UNCHANGED <<scorerVars, bundle, result, first, arg, call, ret, cache, usage, deep>>

\* the cache write of run() settles: the message is sent, finally clears
\* isRunning, and an init() that awaited run() goes on
CacheResultSettles ==
    /\ page.kind = "page"
    /\ page.run = "awaiting cacheResult"
    /\ Delivered
    /\ LET ended == [ page EXCEPT !.isRunning = FALSE, !.run = "returned" ]
       IN  page' = IF page.init = "awaiting run"
                   THEN [ _observeForNewReviews(ended) EXCEPT !.init = "returned" ]
                   ELSE ended
    /\ UNCHANGED <<scorerVars, bundle, result, first, arg, call, ret, cache, usage, deep>>

\* the page adds review cards, or the review list
DomChanges(newCards, list) ==
    /\ page.kind = "page"
    /\ Delivered
    /\ newCards \subseteq Cards \ page.cards
    /\ newCards # {} \/ (list /\ ~page.reviewList)
    /\ page' = [ page EXCEPT !.cards = page.cards \cup newCards,
                             !.reviewList = page.reviewList \/ list,
                             !.firstRecords = page.firstRecords
                                              \/ page.firstObserver = "observing",
                             !.newRecords = page.newRecords \/ page.newObserver ]
    /\ UNCHANGED <<scorerVars, bundle, result, first, arg, call, ret, cache, usage, deep>>

\* the callback of the observer of _observeForReviews
FirstObserverCallback(outcome) ==
    /\ page.kind = "page"
    /\ page.firstRecords
    /\ LET told == [ page EXCEPT !.firstRecords = FALSE ]
           hasReviews == page.reviewList \/ page.cards # {}
       IN  page' = IF hasReviews
                   THEN _observeForNewReviews(
                            run([ told EXCEPT !.firstObserver = "disconnected" ], outcome))
                   ELSE told
    /\ UNCHANGED <<scorerVars, bundle, result, first, arg, call, ret, cache, usage, deep>>

\* the 15 second timeout of _observeForReviews
SafetyTimeout ==
    /\ page.kind = "page"
    /\ page.safetyTimer
    /\ Delivered
    /\ page' = [ page EXCEPT !.safetyTimer = FALSE,
                             !.firstObserver = "disconnected",
                             !.firstRecords = FALSE ]
    /\ UNCHANGED <<scorerVars, bundle, result, first, arg, call, ret, cache, usage, deep>>

\* the callback of the observer of _observeForNewReviews
NewObserverCallback ==
    /\ page.kind = "page"
    /\ page.newRecords
    /\ LET hasNew == page.cards \ page.analyzedReviews # {}
       IN  page' = [ page EXCEPT !.newRecords = FALSE,
                                 !.debounceTimer = page.debounceTimer \/ hasNew ]
    /\ UNCHANGED <<scorerVars, bundle, result, first, arg, call, ret, cache, usage, deep>>

\* the 500 ms debounce timer
DebounceTimerFires(outcome) ==
    /\ page.kind = "page"
    /\ page.debounceTimer
    /\ Delivered
    /\ page' = _analyzeNewReviews([ page EXCEPT !.debounceTimer = FALSE ], outcome)
    /\ UNCHANGED <<scorerVars, bundle, result, first, arg, call, ret, cache, usage, deep>>

\* a click on a pagination control starts a 1500 ms timer
PaginationClick ==
    /\ page.kind = "page"
    /\ page.newObserver
    /\ page.clickTimers < MaxClicks
    /\ Delivered
    /\ page' = [ page EXCEPT !.clickTimers = page.clickTimers + 1 ]
    /\ UNCHANGED <<scorerVars, bundle, result, first, arg, call, ret, cache, usage, deep>>

\* a 1500 ms pagination timer
ClickTimerFires(outcome) ==
    /\ page.kind = "page"
    /\ page.clickTimers > 0
    /\ Delivered
    /\ page' = _analyzeNewReviews([ page EXCEPT !.clickTimers = page.clickTimers - 1 ], outcome)
    /\ UNCHANGED <<scorerVars, bundle, result, first, arg, call, ret, cache, usage, deep>>

PageInit ==
    /\ Construct(<< >>)
    /\ call = NoSingleCall
    /\ ret = Pending
    /\ cache = NotRunning
    /\ usage = NotRunning
    /\ deep = NotRunning
    /\ \E cards \in SUBSET Cards, list \in BOOLEAN, asin \in BOOLEAN :
          page = [ kind |-> "page",
                   reviewList |-> list,
                   asin |-> asin,
                   cards |-> cards,
                   analysed |-> [ card \in Cards |-> 0 ],
                   badged |-> {},
                   isRunning |-> FALSE,
                   analyzedReviews |-> {},
                   init |-> "not started",
                   run |-> "not called",
                   firstObserver |-> "none",
                   safetyTimer |-> FALSE,
                   firstRecords |-> FALSE,
                   newObserver |-> FALSE,
                   newRecords |-> FALSE,
                   debounceTimer |-> FALSE,
                   clickTimers |-> 0,
                   overlapped |-> FALSE,
                   threw |-> FALSE ]

\* the steps of the script
ScriptStep ==
    \/ \E outcome \in Outcomes : ScriptStarts(outcome)
    \/ CacheResultSettles
    \/ \E outcome \in Outcomes : FirstObserverCallback(outcome)
    \/ SafetyTimeout
    \/ NewObserverCallback
    \/ \E outcome \in Outcomes : DebounceTimerFires(outcome)
    \/ \E outcome \in Outcomes : ClickTimerFires(outcome)

\* the steps of the page and its user
PageStep ==
    \/ \E newCards \in SUBSET Cards, list \in BOOLEAN : DomChanges(newCards, list)
    \/ PaginationClick

PageNext == ScriptStep \/ PageStep

PageSpec == PageInit /\ [][PageNext]_vars

\* every handler that is due runs, every timer that is set fires and the
\* cache write settles
PageFairSpec ==
    /\ PageSpec
    /\ WF_vars(\E outcome \in Outcomes : ScriptStarts(outcome))
    /\ WF_vars(CacheResultSettles)
    /\ WF_vars(\E outcome \in Outcomes : FirstObserverCallback(outcome))
    /\ WF_vars(SafetyTimeout)
    /\ WF_vars(NewObserverCallback)
    /\ WF_vars(\E outcome \in Outcomes : DebounceTimerFires(outcome))
    /\ WF_vars(\E outcome \in Outcomes : ClickTimerFires(outcome))

-----------------------------------------------------------------------------
(* C26.  run() and _analyzeNewReviews() are mutually exclusive through      *)
(* isRunning: under any interleaving of init, the observer callbacks, the   *)
(* debounce timer and the pagination timers no analysis starts while        *)
(* another is in progress, isRunning is true exactly while run() is         *)
(* suspended in its analysis, and it is false again after every analysis    *)
(* (no reviews, success, exception), so no later trigger is blocked forever.*)

\* run() is suspended at its await, the only place where an analysis is in
\* progress between two handlers
AnalysisInProgress == page.run = "awaiting cacheResult"

OneAnalysisAtATime ==
    page.kind = "page" =>
        /\ ~page.overlapped
        /\ page.isRunning <=> AnalysisInProgress

C26_MutuallyExclusive ==
    /\ []OneAnalysisAtATime
    /\ (page.kind = "page" /\ page.isRunning) ~> ~page.isRunning

\* the debounce timer fired while run() was suspended, and the new card is
\* left for a later trigger
C26_Witness ==
    /\ page.kind = "page"
    /\ AnalysisInProgress
    /\ page.newObserver
    /\ page.cards \ page.analyzedReviews # {}
    /\ ~page.newRecords
    /\ ~page.debounceTimer

-----------------------------------------------------------------------------
(* C27.  Every review card with text that is on the page when the content   *)
(* script starts, or is added later, is eventually analysed and badged,     *)
(* and is analysed once only, unless an analysis throws.  The code marks    *)
(* the cards added during run()'s await as analysed without analysing them. *)

Analysed(card) == card \in page.badged /\ page.analysed[card] = 1

C27_EveryCardBadgedOnce ==
    \A card \in WithText(Cards) :
        /\ [](page.kind = "page" => page.analysed[card] <= 1)
        /\ (page.kind = "page" /\ card \in page.cards) ~> (Analysed(card) \/ page.threw)

-----------------------------------------------------------------------------
(* StorageManager: usage tracking, and the background script that counts    *)
(* the scans.  A day is a number; the stored usage record survives from     *)
(* earlier sessions.                                                        *)

DAILY_FREE_LIMIT == 50

\* the days followed
MaxDays == 2

\* the incrementUsage calls pending at one time
MaxPending == 2

\* the pages scored in one behaviour
MaxScans == 4

Tiers == { "free", "pro", "family" }

\* the usage records an earlier session can have left: none, one of an earlier
\* day, one of today
StoredUsage ==
    { NoEntry }
    \cup { [ date |-> day, scans |-> scans, deepScans |-> 0 ] :
             day \in {0, 1},
             scans \in { 0, DAILY_FREE_LIMIT - 1, DAILY_FREE_LIMIT } }

\* getUsageToday(): the stored record, or a new one on a new day
UsageToday(stored, today) ==
    IF stored = NoEntry \/ stored.date # today
    THEN [ date |-> today, scans |-> 0, deepScans |-> 0 ]
    ELSE stored

\* usage[type] = (usage[type] || 0) + 1 for type 'scans'
Incremented(record) == [ record EXCEPT !.scans = record.scans + 1 ]

\* canScan()
canScan(tier, stored, today) ==
    IF tier # "free" THEN TRUE
    ELSE UsageToday(stored, today).scans < DAILY_FREE_LIMIT

PendingSlots == 1 .. MaxPending

NoIncrementPending == \A slot \in PendingSlots : usage.calls[slot] = NotCalled

\* AmazonAnalyzer.run() has analysed a page and sent PAGE_SCORED;
\* handlePageScored calls incrementUsage('scans'), which runs up to the
\* await of the storage read in getUsageToday
PageScored(slot) ==
    /\ usage.kind = "usage"
    /\ usage.calls[slot] = NotCalled
    /\ usage.scored < MaxScans
    /\ usage' = [ usage EXCEPT !.calls[slot] = [ kind |-> "read",
                                                 record |-> UsageToday(usage.stored, usage.today) ],
                               !.scored = usage.scored + 1,
                               !.made = usage.made + 1,
                               !.ret = NoReturn ]
    /\ UNCHANGED <<scorerVars, bundle, result, first, arg, call, ret, cache, page, deep>>

\* incrementUsage('scans') from the await on: the record read is incremented
\* and stored
IncrementUsageWrites(slot) ==
    /\ usage.kind = "usage"
    /\ usage.calls[slot] # NotCalled
    /\ usage' = [ usage EXCEPT !.stored = Incremented(usage.calls[slot].record),
                               !.calls[slot] = NotCalled,
                               !.ret = NoReturn ]
    /\ UNCHANGED <<scorerVars, bundle, result, first, arg, call, ret, cache, page, deep>>

\* the CAN_SCAN message: canScan() answers
CanScan ==
    /\ usage.kind = "usage"
    /\ usage' = [ usage EXCEPT !.ret = [ kind |-> "returned",
                                         value |-> canScan(usage.tier, usage.stored, usage.today) ] ]
    /\ UNCHANGED <<scorerVars, bundle, result, first, arg, call, ret, cache, page, deep>>

\* midnight
NextDay ==
    /\ usage.kind = "usage"
    /\ usage.today < MaxDays
    /\ usage' = [ usage EXCEPT !.today = usage.today + 1,
                               !.made = 0,
                               !.overMidnight = ~NoIncrementPending,
                               !.ret = NoReturn ]
    /\ UNCHANGED <<scorerVars, bundle, result, first, arg, call, ret, cache, page, deep>>

UsageInit ==
    /\ Construct(<< >>)
    /\ call = NoSingleCall
    /\ ret = Pending
    /\ cache = NotRunning
    /\ page = NotRunning
    /\ deep = NotRunning
    /\ \E tier \in Tiers, stored \in StoredUsage :
          usage = [ kind |-> "usage",
                    tier |-> tier,
                    today |-> 1,
                    stored |-> stored,
                    calls |-> [ slot \in PendingSlots |-> NotCalled ],
                    scored |-> 0,
                    made |-> UsageToday(stored, 1).scans,
                    overMidnight |-> FALSE,
                    ret |-> NoReturn ]

UsageNext ==
    \/ \E slot \in PendingSlots : PageScored(slot)
    \/ \E slot \in PendingSlots : IncrementUsageWrites(slot)
    \/ CanScan
    \/ NextDay

UsageSpec == UsageInit /\ [][UsageNext]_vars

-----------------------------------------------------------------------------
(* C28.  No usage increment is lost: when all the incrementUsage('scans')   *)
(* calls made on one day have completed, in any interleaving, the stored    *)
(* usage.scans equals the number of calls made that day.  The code loses    *)
(* the increment of a call that read the record before another call wrote.  *)

\* the scans stored for today
ScansToday == UsageToday(usage.stored, usage.today).scans

C28_NoIncrementLost ==
    (/\ usage.kind = "usage"
     /\ NoIncrementPending
     /\ ~usage.overMidnight) => ScansToday = usage.made

-----------------------------------------------------------------------------
(* C29.  For a free-tier user the scans performed and recorded for one day  *)
(* never exceed DAILY_FREE_LIMIT: canScan() is false as soon as today's     *)
(* usage.scans reaches 50 and true for the other tiers, and once it would   *)
(* be false no further page analysis is run or counted that day.  The code  *)
(* never asks canScan before it analyses or counts a page.                  *)

C29_FreeTierLimit ==
    usage.kind = "usage" =>
        /\ usage.ret.kind = "returned" =>
              usage.ret.value = (usage.tier # "free" \/ ScansToday < DAILY_FREE_LIMIT)
        /\ usage.tier = "free" => usage.made <= DAILY_FREE_LIMIT /\ ScansToday <= DAILY_FREE_LIMIT

-----------------------------------------------------------------------------
(* DeepAnalyzer.  analyzeContent tests callCount, awaits the API request    *)
(* and counts the request after the response arrived.                       *)

dailyLimit == 50

\* the API requests in flight at one time
MaxRequests == 2

\* the requests issued between two resets that are followed beyond the limit
MaxExcess == 2

\* what becomes of an API request: a response that parses, a response that
\* does not parse, an HTTP error or a network failure
RequestOutcomes == { "parsed", "not parsed", "failed" }

Unavailable(reason) == [ kind |-> "returned", available |-> FALSE, reason |-> reason ]

\* analyzeContent(text, context) up to its first return or its await
AnalyzeContentStarts ==
    /\ deep.kind = "deep"
    /\ deep.pending < MaxRequests
    /\ deep.issued < dailyLimit + MaxExcess
    /\ deep' = IF ~deep.apiKey
               THEN [ deep EXCEPT !.ret = Unavailable("API key not configured") ]
               ELSE IF deep.callCount >= dailyLimit
               THEN [ deep EXCEPT !.ret = Unavailable("Daily analysis limit reached") ]
               ELSE [ deep EXCEPT !.pending = deep.pending + 1,
                                  !.issued = deep.issued + 1,
                                  !.ret = NoReturn ]
    /\ UNCHANGED <<scorerVars, bundle, result, first, arg, call, ret, cache, usage, page>>

\* analyzeContent from the await of _callAPI on: a response is counted and
\* parsed, an error is caught
RequestSettles(outcome) ==
    /\ deep.kind = "deep"
    /\ deep.pending > 0
    /\ deep' = IF outcome = "failed"
               THEN [ deep EXCEPT !.pending = deep.pending - 1,
                                  !.ret = Unavailable("Analysis failed") ]
               ELSE [ deep EXCEPT !.pending = deep.pending - 1,
                                  !.callCount = deep.callCount + 1,
                                  !.ret = IF outcome = "parsed"
                                          THEN [ kind |-> "returned", available |-> TRUE,
                                                 reason |-> "" ]
                                          ELSE Unavailable("Failed to parse analysis") ]
    /\ UNCHANGED <<scorerVars, bundle, result, first, arg, call, ret, cache, usage, page>>

\* resetDailyCount()
ResetDailyCount ==
    /\ deep.kind = "deep"
    /\ deep' = [ deep EXCEPT !.callCount = 0, !.issued = 0, !.ret = NoReturn ]
    /\ UNCHANGED <<scorerVars, bundle, result, first, arg, call, ret, cache, usage, page>>

DeepInit ==
    /\ Construct(<< >>)
    /\ call = NoSingleCall
    /\ ret = Pending
    /\ cache = NotRunning
    /\ usage = NotRunning
    /\ page = NotRunning
    /\ \E apiKey \in BOOLEAN :
          deep = [ kind |-> "deep",
                   apiKey |-> apiKey,
                   callCount |-> 0,
                   pending |-> 0,
                   issued |-> 0,
                   ret |-> NoReturn ]

DeepNext ==
    \/ AnalyzeContentStarts
    \/ \E outcome \in RequestOutcomes : RequestSettles(outcome)
    \/ ResetDailyCount

DeepSpec == DeepInit /\ [][DeepNext]_vars

-----------------------------------------------------------------------------
(* C30.  Between two resetDailyCount() calls analyzeContent issues at most  *)
(* dailyLimit API requests, in any interleaving of pending calls and        *)
(* whether the requests succeed or fail; at the limit it returns            *)
(* {available: false, reason: 'Daily analysis limit reached'} without a     *)
(* request, and it never rejects.  The code counts a request only when its  *)
(* response has arrived, and does not count a request that failed.          *)

C30_DailyLimit ==
    deep.kind = "deep" =>
        /\ deep.issued <= dailyLimit
        /\ deep.ret.kind \in { "returned", "no return" }
        /\ (deep.ret.kind = "returned" /\ deep.ret.reason = "Daily analysis limit reached") =>
              deep.callCount >= dailyLimit

====
